---- MODULE Spec2Model ----
(***************************************************************************)
(* otel-tui: the in-memory telemetry store fed by the exporter's           *)
(* pushTraces / pushMetrics / pushLogs and the HTTP query surface of       *)
(* tuiexporter/internal/httpserver.                                        *)
(*                                                                         *)
(* The handlers, the filter engine and the exporter are translated from    *)
(* src/tuiexporter.  The package internal/telemetry (Store, TraceCache,    *)
(* MetricCache, LogCache) is not among the sources; its operations are     *)
(* modelled from sections 3-5 of the specification.                        *)
(***************************************************************************)
EXTENDS Integers, Sequences, FiniteSets, TLC

(***************************************************************************)
(* Bounds of the model.  The three capacities stand for                    *)
(* telemetry.MAX_SERVICE_SPAN_COUNT = 1000, MAX_METRIC_COUNT = 3000 and    *)
(* MAX_LOG_COUNT = 1000 (handlers.go:399-401), scaled down.                *)
(***************************************************************************)
MAX_SERVICE_SPAN_COUNT == 2
MAX_METRIC_COUNT == 2
MAX_LOG_COUNT == 2
\* records ingested over a whole run, all signals together
MaxIngest == 3
\* records ingested while HTTP handlers run beside the ingest path
MaxIngestReaders == 2
\* records in one batch
MaxBatch == 2

\* the instants the clock shows
Instants == 1..2
TraceIDs == {"t1", "t2"}
\* span ids, in the order a batch of distinct spans uses them
SpanIDSeq == <<"s1", "s2", "s3">>
SpanIDs == {SpanIDSeq[i] : i \in 1..Len(SpanIDSeq)}
Services == {"front", "unknown"}
MetricNames == {"cpu"}
\* a log carries a trace id or none
LogTraceIDs == {"", "t1"}
\* the goroutines serving HTTP requests
Readers == {"r1", "r2"}

VARIABLES
    \* telemetry.Store
    spans, metrics, logs,
    spanByID, spansByTraceID, spansByTraceAndService, spansByService,
    metricsByServiceAndName, metricsByService,
    logsByTraceID, logsByService,
    updatedAt,
    \* the query of the service-filtered views, set by ApplyFilterMetrics and
    \* ApplyFilterLogs
    filterMetric, filterLog,
    \* the clock handed to NewStore and the allocation of records
    now, nextUid,
    \* how many records the environment delivers in this run
    ingestLimit,
    \* the store's lock as the ingest path holds it: kind of the batch being
    \* added and the number of its records still to insert
    writer,
    \* what pushTraces / pushMetrics / pushLogs returned last
    pushErr,
    \* history: every record ever inserted and every record evicted, in order
    insertedSpans, insertedMetrics, insertedLogs,
    evictedSpans, evictedMetrics, evictedLogs,
    \* the HTTP handlers in flight: per goroutine the handler, its position,
    \* its request, its locals and the response built so far; expect is
    \* history, the responses the store states at the handler's first access
    \* and after every batch completed since would give
    rd,
    \* tuiExporter: its fields, the positions of Start and Shutdown, the
    \* goroutines Start spawned, the context of Start and, as history, the
    \* calls made on the TUI app and the HTTP server
    exporter

storeVars == <<spans, metrics, logs,
               spanByID, spansByTraceID, spansByTraceAndService, spansByService,
               metricsByServiceAndName, metricsByService,
               logsByTraceID, logsByService, updatedAt>>
histVars == <<insertedSpans, insertedMetrics, insertedLogs,
              evictedSpans, evictedMetrics, evictedLogs>>
vars == <<storeVars, filterMetric, filterLog, now, nextUid, ingestLimit,
          writer, pushErr, histVars, rd, exporter>>

(***************************************************************************)
(* Helpers on sequences and on maps whose values are slices.               *)
(***************************************************************************)
Min(a, b) == IF a <= b THEN a ELSE b

Range(s) == {s[i] : i \in 1..Len(s)}

EmptyMap == [k \in {} |-> <<>>]

\* m[k] = append(m[k], r)
MapAppend(m, k, r) ==
    IF k \in DOMAIN m
    THEN [m EXCEPT ![k] = Append(@, r)]
    ELSE [x \in DOMAIN m \cup {k} |-> IF x = k THEN <<r>> ELSE m[x]]

\* MapRemove that leaves the key of an emptied slice in the map
MapRemoveKeepKey(m, k, r) ==
    IF k \notin DOMAIN m
    THEN m
    ELSE [m EXCEPT ![k] = SelectSeq(m[k], LAMBDA x : x.uid # r.uid)]

\* delete record r from the slice at k; an emptied slice deletes the key
MapRemove(m, k, r) ==
    IF k \notin DOMAIN m
    THEN m
    ELSE LET rest == SelectSeq(m[k], LAMBDA x : x.uid # r.uid)
         IN  IF rest = <<>>
             THEN [x \in DOMAIN m \ {k} |-> m[x]]
             ELSE [m EXCEPT ![k] = rest]

(***************************************************************************)
(* Records.  uid is the identity of the allocated record (the pointer the  *)
(* arrays and the caches share); two records that agree on every field     *)
(* are still two records.                                                  *)
(***************************************************************************)
SpanInputs ==
    [traceID : TraceIDs, spanID : SpanIDs, parentSpanID : {""},
     serviceName : Services, name : {"GET"}, duration : {1}, status : {"Unset"}]

\* value is the float64 of the metric's data point, as text
MetricInputs ==
    [serviceName : Services, name : MetricNames, type : {"Gauge"}, value : {"1"}]

LogInputs ==
    [serviceName : Services, traceID : LogTraceIDs, severityNumber : {9},
     severityText : {"INFO"}, body : {"msg"}, timestamp : {1}]

NewSpanData(in, uid, at) ==
    [uid |-> uid, traceID |-> in.traceID, spanID |-> in.spanID,
     parentSpanID |-> in.parentSpanID, serviceName |-> in.serviceName,
     name |-> in.name, duration |-> in.duration, status |-> in.status,
     receivedAt |-> at]

NewMetricData(in, uid, at) ==
    [uid |-> uid, serviceName |-> in.serviceName, name |-> in.name,
     type |-> in.type, value |-> in.value, receivedAt |-> at]

NewLogData(in, uid, at) ==
    [uid |-> uid, serviceName |-> in.serviceName, traceID |-> in.traceID,
     severityNumber |-> in.severityNumber, severityText |-> in.severityText,
     body |-> in.body, timestamp |-> in.timestamp, receivedAt |-> at]

(***************************************************************************)
(* The three caches (specification 4.B): add and remove of one record.     *)
(***************************************************************************)
TraceCache ==
    [spanByID |-> spanByID, spansByTraceID |-> spansByTraceID,
     spansByTraceAndService |-> spansByTraceAndService,
     spansByService |-> spansByService]

TraceCacheAdd(c, r) ==
    [spanByID |->
        [x \in DOMAIN c.spanByID \cup {r.spanID} |->
            IF x = r.spanID THEN r ELSE c.spanByID[x]],
     spansByTraceID |-> MapAppend(c.spansByTraceID, r.traceID, r),
     spansByTraceAndService |->
        MapAppend(c.spansByTraceAndService, <<r.traceID, r.serviceName>>, r),
     spansByService |-> MapAppend(c.spansByService, r.serviceName, r)]

TraceCacheRemove(c, r) ==
    [spanByID |->
        IF r.spanID \in DOMAIN c.spanByID /\ c.spanByID[r.spanID].uid = r.uid
        THEN [x \in DOMAIN c.spanByID \ {r.spanID} |-> c.spanByID[x]]
        ELSE c.spanByID,
     spansByTraceID |-> MapRemove(c.spansByTraceID, r.traceID, r),
     spansByTraceAndService |->
        MapRemove(c.spansByTraceAndService, <<r.traceID, r.serviceName>>, r),
     spansByService |-> MapRemove(c.spansByService, r.serviceName, r)]

MetricCache ==
    [metricsByServiceAndName |-> metricsByServiceAndName,
     metricsByService |-> metricsByService]

MetricCacheAdd(c, r) ==
    [metricsByServiceAndName |->
        MapAppend(c.metricsByServiceAndName, <<r.serviceName, r.name>>, r),
     metricsByService |-> MapAppend(c.metricsByService, r.serviceName, r)]

MetricCacheRemove(c, r) ==
    [metricsByServiceAndName |->
        MapRemove(c.metricsByServiceAndName, <<r.serviceName, r.name>>, r),
     metricsByService |-> MapRemove(c.metricsByService, r.serviceName, r)]

LogCache == [logsByTraceID |-> logsByTraceID, logsByService |-> logsByService]

LogCacheAdd(c, r) ==
    [logsByTraceID |->
        IF r.traceID # "" THEN MapAppend(c.logsByTraceID, r.traceID, r)
        ELSE c.logsByTraceID,
     logsByService |-> MapAppend(c.logsByService, r.serviceName, r)]

LogCacheRemove(c, r) ==
    [logsByTraceID |->
        IF r.traceID # "" THEN MapRemove(c.logsByTraceID, r.traceID, r)
        ELSE c.logsByTraceID,
     logsByService |-> MapRemove(c.logsByService, r.serviceName, r)]

(***************************************************************************)
(* Store: insertion of one record with FIFO eviction at the cap            *)
(* (specification 4.C).  Each operator takes and returns the pair          *)
(* [arr, cache, out]: the primary array, its cache and the records         *)
(* evicted by the step.                                                    *)
(***************************************************************************)
\* InsertSpan without the eviction: the array grows past the cap
InsertSpanNoEvict(arr, c, r) ==
    [arr |-> Append(arr, r), cache |-> TraceCacheAdd(c, r), out |-> <<>>]

\* InsertSpan that keeps the old data at the cap and drops the new span
InsertSpanDropNew(arr, c, r) ==
    IF Len(arr) >= MAX_SERVICE_SPAN_COUNT
    THEN [arr |-> arr, cache |-> c, out |-> <<>>]
    ELSE [arr |-> Append(arr, r), cache |-> TraceCacheAdd(c, r), out |-> <<>>]

InsertSpan(arr, c, r) ==
    IF Len(arr) >= MAX_SERVICE_SPAN_COUNT
    THEN [arr |-> Append(Tail(arr), r),
          cache |-> TraceCacheAdd(TraceCacheRemove(c, Head(arr)), r),
          out |-> <<Head(arr)>>]
    ELSE [arr |-> Append(arr, r), cache |-> TraceCacheAdd(c, r), out |-> <<>>]

InsertMetric(arr, c, r) ==
    IF Len(arr) >= MAX_METRIC_COUNT
    THEN [arr |-> Append(Tail(arr), r),
          cache |-> MetricCacheAdd(MetricCacheRemove(c, Head(arr)), r),
          out |-> <<Head(arr)>>]
    ELSE [arr |-> Append(arr, r), cache |-> MetricCacheAdd(c, r), out |-> <<>>]

InsertLog(arr, c, r) ==
    IF Len(arr) >= MAX_LOG_COUNT
    THEN [arr |-> Append(Tail(arr), r),
          cache |-> LogCacheAdd(LogCacheRemove(c, Head(arr)), r),
          out |-> <<Head(arr)>>]
    ELSE [arr |-> Append(arr, r), cache |-> LogCacheAdd(c, r), out |-> <<>>]

(***************************************************************************)
(* The store's accessors (specification 4.C).                              *)
(***************************************************************************)
NoSpan == NewSpanData([traceID |-> "", spanID |-> "", parentSpanID |-> "",
                       serviceName |-> "", name |-> "", duration |-> 0,
                       status |-> "Unset"], 0, 0)

\* TraceCache.GetSpanByID: the span and the presence flag
GetSpanByID(c, spanID) ==
    IF spanID \in DOMAIN c.spanByID
    THEN [span |-> c.spanByID[spanID], ok |-> TRUE]
    ELSE [span |-> NoSpan, ok |-> FALSE]

\* TraceCache.GetSpansByTraceIDAndSvc
GetSpansByTraceIDAndSvc(c, traceID, svc) ==
    IF <<traceID, svc>> \in DOMAIN c.spansByTraceAndService
    THEN [spans |-> c.spansByTraceAndService[<<traceID, svc>>], ok |-> TRUE]
    ELSE [spans |-> <<>>, ok |-> FALSE]

\* MetricCache.GetMetricsBySvcAndMetricName
GetMetricsBySvcAndMetricName(c, svc, metricName) ==
    IF <<svc, metricName>> \in DOMAIN c.metricsByServiceAndName
    THEN [metrics |-> c.metricsByServiceAndName[<<svc, metricName>>], ok |-> TRUE]
    ELSE [metrics |-> <<>>, ok |-> FALSE]

\* LogCache.GetLogsByTraceID
GetLogsByTraceID(c, traceID) ==
    IF traceID \in DOMAIN c.logsByTraceID
    THEN [logs |-> c.logsByTraceID[traceID], ok |-> TRUE]
    ELSE [logs |-> <<>>, ok |-> FALSE]

(***************************************************************************)
(* Strings.  Go compares strings byte by byte; Alphabet lists the          *)
(* characters the model uses in ASCII order.                               *)
(***************************************************************************)
Alphabet == " -0123456789>ABCDEFGHIJKLMNOPQRSTUVWXYZ_abcdefghijklmnopqrstuvwxyz"

CharAt(str, i) == SubSeq(str, i, i)

Chars == {CharAt(Alphabet, i) : i \in 1..Len(Alphabet)}

\* the position of each character in Alphabet
CodeOf == [c \in Chars |-> CHOOSE i \in 1..Len(Alphabet) : CharAt(Alphabet, i) = c]

Code(ch) == CodeOf[ch]

\* 'A'..'Z' sit at 14..39 of Alphabet and 'a'..'z' at 41..66
LowerOf ==
    [c \in Chars |->
        IF CodeOf[c] >= 14 /\ CodeOf[c] <= 39 THEN CharAt(Alphabet, CodeOf[c] + 27) ELSE c]

ToLowerChar(ch) == LowerOf[ch]

RECURSIVE ToLower(_)
ToLower(str) ==
    IF str = "" THEN ""
    ELSE ToLowerChar(CharAt(str, 1)) \o ToLower(SubSeq(str, 2, Len(str)))

\* strings.Contains
Contains(str, sub) ==
    \E i \in 1..(Len(str) - Len(sub) + 1) : SubSeq(str, i, i + Len(sub) - 1) = sub

\* a < b for Go strings
RECURSIVE StrLess(_, _)
StrLess(a, b) ==
    IF b = "" THEN FALSE
    ELSE IF a = "" THEN TRUE
    ELSE IF CharAt(a, 1) = CharAt(b, 1)
         THEN StrLess(SubSeq(a, 2, Len(a)), SubSeq(b, 2, Len(b)))
         ELSE Code(CharAt(a, 1)) < Code(CharAt(b, 1))

(***************************************************************************)
(* Service-filtered views (specification 4.C).  ApplyFilterMetrics(q)      *)
(* returns nothing and GetFilteredMetrics() takes nothing                  *)
(* (handlers.go:168-169, 192-193), so the query is kept in the store       *)
(* between the two calls; the view itself is computed when it is asked.    *)
(***************************************************************************)
MetricMatchesView(m, q) ==
    q = "" \/ Contains(ToLower(m.serviceName \o " " \o m.name), ToLower(q))

LogMatchesView(l, q) ==
    \/ q = ""
    \/ Contains(ToLower(l.serviceName), ToLower(q))
    \/ Contains(ToLower(l.body), ToLower(q))
    \/ Contains(ToLower(l.severityText), ToLower(q))

GetFilteredMetrics == SelectSeq(metrics, LAMBDA m : MetricMatchesView(m, filterMetric))

GetFilteredLogs == SelectSeq(logs, LAMBDA l : LogMatchesView(l, filterLog))

(***************************************************************************)
(* Query parameters (handlers.go:498-659).  A raw numeric parameter is     *)
(* absent, text that is no number, or a number.                            *)
(***************************************************************************)
Absent == [set |-> FALSE, int |-> FALSE, val |-> 0]

NotANumber == [set |-> TRUE, int |-> FALSE, val |-> 0]

Num(n) == [set |-> TRUE, int |-> TRUE, val |-> n]

Nil == [set |-> FALSE, val |-> 0]

Ptr(v) == [set |-> TRUE, val |-> v]

Millisecond == 1000000

DefaultLimit == 100

MaxLimit == 1000

\* the range of Go's int, scaled down from 64 bits
MaxInt == 32767

MinInt == -MaxInt - 1

\* strconv.Atoi: an error for text that is no decimal integer and for a
\* numeral outside the range of int
Atoi(p) ==
    IF p.int /\ p.val >= MinInt /\ p.val <= MaxInt
    THEN [val |-> p.val, err |-> FALSE]
    ELSE [val |-> 0, err |-> TRUE]

\* ParsePaginationParams without the cap of the limit
ParsePaginationParamsNoCap(q) ==
    [Offset |-> IF q.offset.set /\ ~Atoi(q.offset).err /\ Atoi(q.offset).val >= 0
                THEN Atoi(q.offset).val ELSE 0,
     Limit |-> IF q.limit.set /\ ~Atoi(q.limit).err /\ Atoi(q.limit).val > 0
               THEN Atoi(q.limit).val ELSE DefaultLimit]

ParsePaginationParams(q) ==
    [Offset |-> IF q.offset.set /\ ~Atoi(q.offset).err /\ Atoi(q.offset).val >= 0
                THEN Atoi(q.offset).val ELSE 0,
     Limit |-> IF q.limit.set /\ ~Atoi(q.limit).err /\ Atoi(q.limit).val > 0
               THEN Min(Atoi(q.limit).val, MaxLimit) ELSE DefaultLimit]

\* the range of int64, scaled down to 30 bits so that its products can be
\* computed
MaxInt64 == 536870911

MinInt64 == -MaxInt64 - 1

Int64Modulus == 2 * (MaxInt64 + 1)

\* strconv.ParseInt(s, 10, 64)
ParseInt(p) ==
    IF p.int /\ p.val >= MinInt64 /\ p.val <= MaxInt64
    THEN [val |-> p.val, err |-> FALSE]
    ELSE [val |-> 0, err |-> TRUE]

\* a * b modulo Int64Modulus for a, b in 0..(Int64Modulus - 1)
RECURSIVE MulMod(_, _)
MulMod(a, b) ==
    IF b = 0 THEN 0
    ELSE (((2 * MulMod(a, b \div 2)) % Int64Modulus) + (b % 2) * a) % Int64Modulus

\* the product of two int64 values as Go computes it: the low bits, signed
MulInt64(a, b) ==
    LET low == MulMod(a % Int64Modulus, b % Int64Modulus)
    IN  IF low > MaxInt64 THEN low - Int64Modulus ELSE low

\* a decimal integer is taken as Unix milliseconds; RFC3339 text is not drawn
ParseTimeRangeParams(q) ==
    [StartTime |-> IF q.start_time.set /\ ~ParseInt(q.start_time).err
                   THEN Ptr(MulInt64(Millisecond, ParseInt(q.start_time).val)) ELSE Nil,
     EndTime |-> IF q.end_time.set /\ ~ParseInt(q.end_time).err
                 THEN Ptr(MulInt64(Millisecond, ParseInt(q.end_time).val)) ELSE Nil]

ParseTraceFilterParams(q) ==
    [Service |-> q.service,
     Status |-> ToLower(q.status),
     MinDuration |-> IF q.min_duration_ms.set /\ q.min_duration_ms.int
                     THEN Ptr(q.min_duration_ms.val * Millisecond) ELSE Nil,
     MaxDuration |-> IF q.max_duration_ms.set /\ q.max_duration_ms.int
                     THEN Ptr(q.max_duration_ms.val * Millisecond) ELSE Nil,
     TimeRange |-> ParseTimeRangeParams(q),
     Pagination |-> ParsePaginationParams(q),
     SortBy |-> IF ToLower(q.sort_by) = "" THEN "time" ELSE ToLower(q.sort_by),
     SortOrder |-> IF ToLower(q.sort_order) = "" THEN "desc" ELSE ToLower(q.sort_order)]

ParseMetricFilterParams(q) ==
    [Service |-> q.service,
     MetricName |-> q.metric,
     MetricType |-> q.type,
     TimeRange |-> ParseTimeRangeParams(q),
     Pagination |-> ParsePaginationParams(q)]

severityNameToNumber(name) ==
    CASE ToLower(name) = "trace" -> 1
      [] ToLower(name) = "debug" -> 5
      [] ToLower(name) = "info" -> 9
      [] ToLower(name) = "warn" -> 13
      [] ToLower(name) = "error" -> 17
      [] ToLower(name) = "fatal" -> 21
      [] OTHER -> 0

ParseLogFilterParams(q) ==
    [Service |-> q.service,
     Severity |-> ToLower(q.severity),
     MinSeverity |-> IF q.min_severity # "" THEN severityNameToNumber(q.min_severity)
                     ELSE 0,
     Body |-> q.body,
     TraceID |-> q.trace_id,
     TimeRange |-> ParseTimeRangeParams(q),
     Pagination |-> ParsePaginationParams(q)]

(***************************************************************************)
(* Filter engine (handlers.go:661-952).  Times and durations are in        *)
(* nanoseconds.                                                            *)
(***************************************************************************)
matchesSpanFilters(span, params) ==
    /\ params.Service # "" =>
         Contains(ToLower(span.serviceName \o " " \o span.name), ToLower(params.Service))
    /\ params.Status = "ok" => span.status = "Ok"
    /\ params.Status = "error" => span.status = "Error"
    /\ params.Status = "unset" => span.status = "Unset"
    /\ ~(params.MinDuration.set /\ span.duration < params.MinDuration.val)
    /\ ~(params.MaxDuration.set /\ span.duration > params.MaxDuration.val)
    /\ ~(params.TimeRange.StartTime.set /\ span.receivedAt < params.TimeRange.StartTime.val)
    /\ ~(params.TimeRange.EndTime.set /\ span.receivedAt > params.TimeRange.EndTime.val)

SwapAt(s, i, j) == [s EXCEPT ![i] = s[j], ![j] = s[i]]

\* the test of the inner loop with <= and >= for < and >: equal keys swap too
ShouldSwapOrEqual(a, b, sortBy, ascending) ==
    CASE sortBy = "duration" ->
           IF ascending THEN a.duration >= b.duration ELSE a.duration <= b.duration
      [] sortBy = "name" ->
           IF ascending THEN ~StrLess(a.name, b.name) ELSE ~StrLess(b.name, a.name)
      [] OTHER ->
           IF ascending THEN a.receivedAt >= b.receivedAt
           ELSE a.receivedAt <= b.receivedAt

\* the test of the inner loop of sortSpansByTime / ByDuration / ByName
ShouldSwap(a, b, sortBy, ascending) ==
    CASE sortBy = "duration" ->
           IF ascending THEN a.duration > b.duration ELSE a.duration < b.duration
      [] sortBy = "name" ->
           IF ascending THEN StrLess(b.name, a.name) ELSE StrLess(a.name, b.name)
      [] OTHER ->
           IF ascending THEN a.receivedAt > b.receivedAt
           ELSE a.receivedAt < b.receivedAt

\* the inner loop cut to its first turn: one comparison with the next element
SortInnerOnce(s, i, j, sortBy, ascending) ==
    IF j > Len(s) THEN s
    ELSE IF ShouldSwap(s[i], s[j], sortBy, ascending) THEN SwapAt(s, i, j) ELSE s

\* for j := i + 1; j < len(spans); j++
RECURSIVE SortInner(_, _, _, _, _)
SortInner(s, i, j, sortBy, ascending) ==
    IF j > Len(s) THEN s
    ELSE SortInner(IF ShouldSwap(s[i], s[j], sortBy, ascending)
                   THEN SwapAt(s, i, j) ELSE s,
                   i, j + 1, sortBy, ascending)

\* for i := 0; i < len(spans); i++
RECURSIVE SortOuter(_, _, _, _)
SortOuter(s, i, sortBy, ascending) ==
    IF i > Len(s) THEN s
    ELSE SortOuter(SortInner(s, i, i + 1, sortBy, ascending), i + 1, sortBy, ascending)

sortSpans(s, sortBy, sortOrder) == SortOuter(s, 1, sortBy, sortOrder = "asc")

\* paginateSpans with the end of the page one too far
paginateSpansLongPage(s, pagination) ==
    IF pagination.Offset >= Len(s) THEN <<>>
    ELSE SubSeq(s, pagination.Offset + 1,
                Min(pagination.Offset + pagination.Limit + 1, Len(s)))

paginateSpans(s, pagination) ==
    IF pagination.Offset >= Len(s) THEN <<>>
    ELSE SubSeq(s, pagination.Offset + 1,
                Min(pagination.Offset + pagination.Limit, Len(s)))

FilterSpans(s, params) ==
    paginateSpans(sortSpans(SelectSeq(s, LAMBDA x : matchesSpanFilters(x, params)),
                            params.SortBy, params.SortOrder),
                  params.Pagination)

\* matchesMetricFilters where the service or the metric name filter suffices
matchesMetricFiltersEither(metric, params) ==
    /\ \/ params.Service # "" /\ params.MetricName # ""
          /\ Contains(ToLower(metric.serviceName \o " " \o metric.name),
                      ToLower(params.Service))
       \/ /\ params.Service # "" =>
                Contains(ToLower(metric.serviceName \o " " \o metric.name),
                         ToLower(params.Service))
          /\ params.MetricName # "" =>
                Contains(ToLower(metric.name), ToLower(params.MetricName))
    /\ params.MetricType # "" => ToLower(metric.type) = ToLower(params.MetricType)
    /\ ~(params.TimeRange.StartTime.set
         /\ metric.receivedAt < params.TimeRange.StartTime.val)
    /\ ~(params.TimeRange.EndTime.set
         /\ metric.receivedAt > params.TimeRange.EndTime.val)

matchesMetricFilters(metric, params) ==
    /\ params.Service # "" =>
         Contains(ToLower(metric.serviceName \o " " \o metric.name),
                  ToLower(params.Service))
    /\ params.MetricName # "" =>
         Contains(ToLower(metric.name), ToLower(params.MetricName))
    /\ params.MetricType # "" => ToLower(metric.type) = ToLower(params.MetricType)
    /\ ~(params.TimeRange.StartTime.set
         /\ metric.receivedAt < params.TimeRange.StartTime.val)
    /\ ~(params.TimeRange.EndTime.set
         /\ metric.receivedAt > params.TimeRange.EndTime.val)

paginateMetrics(s, pagination) ==
    IF pagination.Offset >= Len(s) THEN <<>>
    ELSE SubSeq(s, pagination.Offset + 1,
                Min(pagination.Offset + pagination.Limit, Len(s)))

FilterMetrics(s, params) ==
    paginateMetrics(SelectSeq(s, LAMBDA x : matchesMetricFilters(x, params)),
                    params.Pagination)

\* matchesLogFilters with the threshold itself excluded
matchesLogFiltersAbove(log, params) ==
    /\ params.Service # "" =>
         Contains(ToLower(log.serviceName), ToLower(params.Service))
    /\ params.Severity # "" =>
         Contains(ToLower(log.severityText), ToLower(params.Severity))
    /\ ~(params.MinSeverity > 0 /\ log.severityNumber <= params.MinSeverity)
    /\ params.Body # "" => Contains(ToLower(log.body), ToLower(params.Body))
    /\ params.TraceID # "" => log.traceID = params.TraceID
    /\ ~(params.TimeRange.StartTime.set /\ log.timestamp < params.TimeRange.StartTime.val)
    /\ ~(params.TimeRange.EndTime.set /\ log.timestamp > params.TimeRange.EndTime.val)

matchesLogFilters(log, params) ==
    /\ params.Service # "" =>
         Contains(ToLower(log.serviceName), ToLower(params.Service))
    /\ params.Severity # "" =>
         Contains(ToLower(log.severityText), ToLower(params.Severity))
    /\ ~(params.MinSeverity > 0 /\ log.severityNumber < params.MinSeverity)
    /\ params.Body # "" => Contains(ToLower(log.body), ToLower(params.Body))
    /\ params.TraceID # "" => log.traceID = params.TraceID
    /\ ~(params.TimeRange.StartTime.set /\ log.timestamp < params.TimeRange.StartTime.val)
    /\ ~(params.TimeRange.EndTime.set /\ log.timestamp > params.TimeRange.EndTime.val)

paginateLogs(s, pagination) ==
    IF pagination.Offset >= Len(s) THEN <<>>
    ELSE SubSeq(s, pagination.Offset + 1,
                Min(pagination.Offset + pagination.Limit, Len(s)))

FilterLogs(s, params) ==
    paginateLogs(SelectSeq(s, LAMBDA x : matchesLogFilters(x, params)),
                 params.Pagination)

(***************************************************************************)
(* Wire format (models.go:156-202): the fields of the record, without its  *)
(* identity.                                                               *)
(***************************************************************************)
SpanDataToJSON(sd) ==
    [traceId |-> sd.traceID, spanId |-> sd.spanID, parentSpanId |-> sd.parentSpanID,
     name |-> sd.name, durationNano |-> sd.duration, status |-> sd.status,
     serviceName |-> sd.serviceName, receivedAt |-> sd.receivedAt]

MetricDataToJSON(md) ==
    [name |-> md.name, type |-> md.type, dataPoints |-> <<[value |-> md.value]>>,
     serviceName |-> md.serviceName, receivedAt |-> md.receivedAt]

LogDataToJSON(ld) ==
    [timeUnixNano |-> ld.timestamp, severityNumber |-> ld.severityNumber,
     severityText |-> ld.severityText, body |-> ld.body, traceId |-> ld.traceID,
     serviceName |-> ld.serviceName, receivedAt |-> ld.receivedAt]

SeqMap(s, Op(_)) == [i \in 1..Len(s) |-> Op(s[i])]

(***************************************************************************)
(* Handlers that make one access to the store, as functions of its state   *)
(* (handlers.go:147-159, 351-366, 424-484).  Go ranges over a map in no    *)
(* fixed order: a list built from a map is given as the set of its items.  *)
(***************************************************************************)
StatusOK == 200

StatusNotFound == 404

StatusInternalServerError == 500

\* http.ResponseWriter: the status line goes out with the first WriteHeader;
\* a later WriteHeader changes nothing
NewResponseWriter == [wroteHeader |-> FALSE, status |-> 0]

WriteHeader(w, status) ==
    IF w.wroteHeader THEN w ELSE [wroteHeader |-> TRUE, status |-> status]

\* encoding/json rejects a float64 that is NaN or infinite
EncodableValues == {"1"}

MetricsEncode(body) ==
    \A i \in 1..Len(body) :
        \A j \in 1..Len(body[i].dataPoints) :
            body[i].dataPoints[j].value \in EncodableValues

\* respondJSON (handlers.go:409-415): the status the client sees; encodes
\* tells whether json.NewEncoder(w).Encode(data) succeeds
respondJSON(status, encodes) ==
    LET sent == WriteHeader(NewResponseWriter, status)
    IN  IF encodes THEN sent.status
        ELSE WriteHeader(sent, StatusInternalServerError).status

\* handleGetSpanByID without the test of the presence flag
handleGetSpanByIDUnchecked(spanID) ==
    [status |-> StatusOK, error |-> "", span |-> GetSpanByID(TraceCache, spanID).span]

handleGetSpanByID(spanID) ==
    LET res == GetSpanByID(TraceCache, spanID)
    IN  IF ~res.ok
        THEN [status |-> StatusNotFound, error |-> "Span not found", span |-> NoSpan]
        ELSE [status |-> StatusOK, error |-> "", span |-> res.span]

handleGetServices == {sp.serviceName : sp \in Range(spans)}

\* a slice filled by ranging over a Go map holds the map's items in any order
Orderings(S) ==
    {seq \in [1..Cardinality(S) -> S] : \A x \in S : \E i \in DOMAIN seq : seq[i] = x}

MapPut(m, k, v) == [x \in DOMAIN m \cup {k} |-> IF x = k THEN v ELSE m[x]]

MapValues(m) == {m[k] : k \in DOMAIN m}

\* TraceCache.GetSpansByTraceID: the slice and the presence flag
GetSpansByTraceID(c, traceID) ==
    IF traceID \in DOMAIN c.spansByTraceID
    THEN [spans |-> c.spansByTraceID[traceID], ok |-> TRUE]
    ELSE [spans |-> <<>>, ok |-> FALSE]

NoTrace == [traceId |-> "", spans |-> <<>>, services |-> <<>>]

\* handleGetTraceByID: the responses the handler can give on this store
handleGetTraceByID(traceID) ==
    LET res == GetSpansByTraceID(TraceCache, traceID)
    IN  IF ~res.ok
        THEN {[status |-> StatusNotFound, error |-> "Trace not found", result |-> NoTrace]}
        ELSE {[status |-> respondJSON(StatusOK, TRUE), error |-> "",
               result |-> [traceId |-> traceID,
                           spans |-> SeqMap(res.spans, SpanDataToJSON),
                           services |-> services]] :
                 services \in Orderings({sp.serviceName : sp \in Range(res.spans)})}

handleGetTraceByIDAndService(traceID, service) ==
    LET res == GetSpansByTraceIDAndSvc(TraceCache, traceID, service)
    IN  IF ~res.ok
        THEN [status |-> StatusNotFound,
              error |-> "Spans not found for trace and service", result |-> <<>>]
        ELSE [status |-> respondJSON(StatusOK, TRUE), error |-> "",
              result |-> SeqMap(res.spans, SpanDataToJSON)]

handleGetMetricsByServiceAndName(service, metricName) ==
    LET res == GetMetricsBySvcAndMetricName(MetricCache, service, metricName)
        result == SeqMap(res.metrics, MetricDataToJSON)
    IN  IF ~res.ok
        THEN [status |-> StatusNotFound,
              error |-> "Metrics not found for service and metric name",
              result |-> <<>>]
        ELSE [status |-> respondJSON(StatusOK, MetricsEncode(result)), error |-> "",
              result |-> result]

handleGetLogsByTraceID(traceID) ==
    LET res == GetLogsByTraceID(LogCache, traceID)
    IN  IF ~res.ok
        THEN [status |-> StatusNotFound, error |-> "Logs not found for trace",
              result |-> <<>>]
        ELSE [status |-> respondJSON(StatusOK, TRUE), error |-> "",
              result |-> SeqMap(res.logs, LogDataToJSON)]

TopologyNodeJSON(serviceName) == [service |-> serviceName, depth |-> 0]

\* buildTopology, one turn of the loop over the span array with the node of
\* the span's own service added only beside an edge
buildTopologySpanEdgeOnly(graph, spanData, cache) ==
    LET serviceName == spanData.serviceName
        parent == GetSpanByID(cache, spanData.parentSpanID)
        parentServiceName == parent.span.serviceName
        edgeKey == parentServiceName \o "->" \o serviceName
    IN  IF spanData.parentSpanID # "" /\ parent.ok /\ parentServiceName # serviceName
        THEN [nodes |-> MapPut(MapPut(graph.nodes, serviceName,
                                      TopologyNodeJSON(serviceName)),
                               parentServiceName, TopologyNodeJSON(parentServiceName)),
              edges |->
                 IF edgeKey \in DOMAIN graph.edges
                 THEN [graph.edges EXCEPT ![edgeKey].count = @ + 1]
                 ELSE MapPut(graph.edges, edgeKey,
                             [source |-> parentServiceName, target |-> serviceName,
                              count |-> 1])]
        ELSE graph

\* buildTopologySpan without the test that parent and child differ in service
buildTopologySpanSameService(graph, spanData, cache) ==
    LET serviceName == spanData.serviceName
        nodes == IF serviceName \in DOMAIN graph.nodes THEN graph.nodes
                 ELSE MapPut(graph.nodes, serviceName, TopologyNodeJSON(serviceName))
        parent == GetSpanByID(cache, spanData.parentSpanID)
        parentServiceName == parent.span.serviceName
        edgeKey == parentServiceName \o "->" \o serviceName
    IN  IF spanData.parentSpanID # "" /\ parent.ok
        THEN [nodes |->
                 IF parentServiceName \in DOMAIN nodes THEN nodes
                 ELSE MapPut(nodes, parentServiceName, TopologyNodeJSON(parentServiceName)),
              edges |->
                 IF edgeKey \in DOMAIN graph.edges
                 THEN [graph.edges EXCEPT ![edgeKey].count = @ + 1]
                 ELSE MapPut(graph.edges, edgeKey,
                             [source |-> parentServiceName, target |-> serviceName,
                              count |-> 1])]
        ELSE [nodes |-> nodes, edges |-> graph.edges]

\* buildTopology, one turn of the loop over the span array (lines 287-330)
buildTopologySpan(graph, spanData, cache) ==
    LET serviceName == spanData.serviceName
        nodes == IF serviceName \in DOMAIN graph.nodes THEN graph.nodes
                 ELSE MapPut(graph.nodes, serviceName, TopologyNodeJSON(serviceName))
        parent == GetSpanByID(cache, spanData.parentSpanID)
        parentServiceName == parent.span.serviceName
        edgeKey == parentServiceName \o "->" \o serviceName
    IN  IF spanData.parentSpanID # "" /\ parent.ok /\ parentServiceName # serviceName
        THEN [nodes |->
                 IF parentServiceName \in DOMAIN nodes THEN nodes
                 ELSE MapPut(nodes, parentServiceName, TopologyNodeJSON(parentServiceName)),
              edges |->
                 IF edgeKey \in DOMAIN graph.edges
                 THEN [graph.edges EXCEPT ![edgeKey].count = @ + 1]
                 ELSE MapPut(graph.edges, edgeKey,
                             [source |-> parentServiceName, target |-> serviceName,
                              count |-> 1])]
        ELSE [nodes |-> nodes, edges |-> graph.edges]

RECURSIVE buildTopologyLoop(_, _, _)
buildTopologyLoop(graph, s, cache) ==
    IF s = <<>> THEN graph
    ELSE buildTopologyLoop(buildTopologySpan(graph, Head(s), cache), Tail(s), cache)

\* buildTopology: the TopologyJSON values the call can return on this store
buildTopology(cache) ==
    LET graph == buildTopologyLoop([nodes |-> EmptyMap, edges |-> EmptyMap], spans, cache)
    IN  {[nodes |-> nodeSlice, edges |-> edgeSlice] :
            nodeSlice \in Orderings(MapValues(graph.nodes)),
            edgeSlice \in Orderings(MapValues(graph.edges))}

getServicesByMetrics == {m.serviceName : m \in Range(metrics)}

getServicesByLogs == {l.serviceName : l \in Range(logs)}

\* defined beside the handlers; no route calls it
getAllServices ==
    {sv \in handleGetServices \cup getServicesByMetrics \cup getServicesByLogs :
        sv # "" /\ ~Contains(sv, "unknown")}

(***************************************************************************)
(* Handlers in flight.                                                     *)
(***************************************************************************)
DefaultQuery ==
    [service |-> "", status |-> "", min_duration_ms |-> Absent,
     max_duration_ms |-> Absent, start_time |-> Absent, end_time |-> Absent,
     offset |-> Absent, limit |-> Absent, sort_by |-> "", sort_order |-> "",
     metric |-> "", type |-> "", severity |-> "", min_severity |-> "",
     body |-> "", trace_id |-> ""]

TraceQueries ==
    {[DefaultQuery EXCEPT !.status = st, !.offset = off, !.limit = lim,
                          !.sort_by = by, !.sort_order = ord] :
        st \in {"", "error"}, off \in {Absent, Num(1)}, lim \in {Absent, Num(1)},
        by \in {"", "duration", "name"}, ord \in {"", "asc"}}

ZeroStats ==
    [spanCount |-> 0, metricCount |-> 0, logCount |-> 0, traceCount |-> 0,
     serviceCount |-> 0, lastUpdated |-> 0]

\* what a handler has put into its response so far
NoResponse ==
    [status |-> 0, headers |-> {}, body |-> <<>>, total |-> 0, filtered |-> 0,
     stats |-> ZeroStats]

IdleReader ==
    [op |-> "none", pc |-> "idle", q |-> DefaultQuery, svc |-> "",
     resp |-> NoResponse, expect |-> {}]

Snapshot == [spans |-> spans, metrics |-> metrics, logs |-> logs, updatedAt |-> updatedAt]

\* the response of a handler that reads everything from the one store state
\* snap and is alone with the store
ResponseOn(op, q, svc, snap) ==
    CASE op = "traces" ->
           LET filtered == FilterSpans(snap.spans, ParseTraceFilterParams(q))
           IN  [NoResponse EXCEPT !.body = SeqMap(filtered, SpanDataToJSON),
                                  !.filtered = Len(filtered),
                                  !.total = Len(snap.spans),
                                  !.status = respondJSON(StatusOK, TRUE)]
      [] op = "metrics" ->
           LET filtered == FilterMetrics(snap.metrics, ParseMetricFilterParams(q))
           IN  [NoResponse EXCEPT !.body = SeqMap(filtered, MetricDataToJSON),
                                  !.filtered = Len(filtered),
                                  !.total = Len(snap.metrics),
                                  !.status =
                                      respondJSON(StatusOK,
                                          MetricsEncode(SeqMap(filtered, MetricDataToJSON)))]
      [] op = "logs" ->
           LET filtered == FilterLogs(snap.logs, ParseLogFilterParams(q))
           IN  [NoResponse EXCEPT !.body = SeqMap(filtered, LogDataToJSON),
                                  !.filtered = Len(filtered),
                                  !.total = Len(snap.logs),
                                  !.status = respondJSON(StatusOK, TRUE)]
      [] op = "metricsByService" ->
           LET view == SelectSeq(snap.metrics, LAMBDA m : MetricMatchesView(m, svc))
           IN  [NoResponse EXCEPT !.body = SeqMap(view, MetricDataToJSON),
                                  !.status =
                                      respondJSON(StatusOK,
                                          MetricsEncode(SeqMap(view, MetricDataToJSON)))]
      [] op = "stats" ->
           [NoResponse EXCEPT !.status = respondJSON(StatusOK, TRUE), !.stats =
               [spanCount |-> Len(snap.spans), metricCount |-> Len(snap.metrics),
                logCount |-> Len(snap.logs),
                traceCount |-> Cardinality({sp.traceID : sp \in Range(snap.spans)}),
                serviceCount |-> Cardinality({sp.serviceName : sp \in Range(snap.spans)}),
                lastUpdated |-> snap.updatedAt]]
      [] OTHER -> NoResponse

\* history: the store states a handler in flight may answer from, the one at
\* its first access and the one after each batch completed since
Observe(readers, snap) ==
    [r \in Readers |->
        IF readers[r].pc \in {"idle", "done"} THEN readers[r]
        ELSE [readers[r] EXCEPT !.expect =
                 @ \cup {ResponseOn(readers[r].op, readers[r].q, readers[r].svc, snap)}]]

Start(op, pc, q, svc) ==
    [IdleReader EXCEPT !.op = op, !.pc = pc, !.q = q, !.svc = svc,
                       !.expect = {ResponseOn(op, q, svc, Snapshot)}]

\* handleGetTraces whose sort works on the slice the store returned
handleGetTracesBeginInPlace(r, q) ==
    /\ rd[r].pc = "idle" /\ writer.kind = "idle"
    /\ LET params == ParseTraceFilterParams(q)
           filtered == FilterSpans(spans, params)
       IN  /\ rd' = [rd EXCEPT ![r] =
                        [Start("traces", "headers", q, "") EXCEPT
                            !.resp.body = SeqMap(filtered, SpanDataToJSON),
                            !.resp.filtered = Len(filtered)]]
           /\ spans' = sortSpans(spans, params.SortBy, params.SortOrder)
    /\ UNCHANGED <<metrics, logs, spanByID, spansByTraceID, spansByTraceAndService,
                   spansByService, metricsByServiceAndName, metricsByService,
                   logsByTraceID, logsByService, updatedAt, filterMetric, filterLog,
                   now, nextUid, ingestLimit, exporter, writer, pushErr, histVars>>

\* handleGetTraces, lines 73-85 and 89: the spans are fetched and filtered
handleGetTracesBegin(r, q) ==
    /\ rd[r].pc = "idle" /\ writer.kind = "idle"
    /\ LET filtered == FilterSpans(spans, ParseTraceFilterParams(q))
       IN  rd' = [rd EXCEPT ![r] =
                     [Start("traces", "headers", q, "") EXCEPT
                         !.resp.body = SeqMap(filtered, SpanDataToJSON),
                         !.resp.filtered = Len(filtered)]]
    /\ UNCHANGED <<storeVars, filterMetric, filterLog, now, nextUid, ingestLimit, exporter,
                   writer, pushErr, histVars>>

\* handleGetTraces, lines 88-93: X-Total-Count reads *spans again
handleGetTracesHeaders(r) ==
    /\ rd[r].op = "traces" /\ rd[r].pc = "headers"
    /\ rd' = [rd EXCEPT ![r].resp.total = Len(spans),
                        ![r].resp.status = respondJSON(StatusOK, TRUE),
                        ![r].pc = "done"]
    /\ UNCHANGED <<storeVars, filterMetric, filterLog, now, nextUid, ingestLimit, exporter,
                   writer, pushErr, histVars>>

\* handleGetMetrics, lines 165-168
handleGetMetricsBegin(r, q) ==
    /\ rd[r].pc = "idle" /\ writer.kind = "idle"
    /\ filterMetric' = ""
    /\ rd' = [rd EXCEPT ![r] = Start("metrics", "get", q, "")]
    /\ UNCHANGED <<storeVars, filterLog, now, nextUid, ingestLimit, exporter, writer,
                   pushErr, histVars>>

\* handleGetMetrics, lines 169-186
handleGetMetricsGet(r) ==
    /\ rd[r].op = "metrics" /\ rd[r].pc = "get" /\ writer.kind = "idle"
    /\ LET filtered == FilterMetrics(GetFilteredMetrics, ParseMetricFilterParams(rd[r].q))
       IN  rd' = [rd EXCEPT ![r].resp.body = SeqMap(filtered, MetricDataToJSON),
                            ![r].resp.filtered = Len(filtered),
                            ![r].resp.total = Len(GetFilteredMetrics),
                            ![r].resp.status =
                                respondJSON(StatusOK,
                                    MetricsEncode(SeqMap(filtered, MetricDataToJSON))),
                            ![r].pc = "done"]
    /\ UNCHANGED <<storeVars, filterMetric, filterLog, now, nextUid, ingestLimit, exporter,
                   writer, pushErr, histVars>>

\* handleGetMetricsByService, lines 190-192
handleGetMetricsByServiceBegin(r, service) ==
    /\ rd[r].pc = "idle" /\ writer.kind = "idle"
    /\ filterMetric' = service
    /\ rd' = [rd EXCEPT ![r] = Start("metricsByService", "get", DefaultQuery, service)]
    /\ UNCHANGED <<storeVars, filterLog, now, nextUid, ingestLimit, exporter, writer,
                   pushErr, histVars>>

\* handleGetMetricsByService, lines 193-200
handleGetMetricsByServiceGet(r) ==
    /\ rd[r].op = "metricsByService" /\ rd[r].pc = "get" /\ writer.kind = "idle"
    /\ rd' = [rd EXCEPT ![r].resp.body = SeqMap(GetFilteredMetrics, MetricDataToJSON),
                        ![r].resp.status =
                            respondJSON(StatusOK,
                                MetricsEncode(SeqMap(GetFilteredMetrics, MetricDataToJSON))),
                        ![r].pc = "done"]
    /\ UNCHANGED <<storeVars, filterMetric, filterLog, now, nextUid, ingestLimit, exporter,
                   writer, pushErr, histVars>>

\* handleGetLogs, lines 225-229
handleGetLogsBegin(r, q) ==
    /\ rd[r].pc = "idle" /\ writer.kind = "idle"
    /\ filterLog' = ""
    /\ rd' = [rd EXCEPT ![r] = Start("logs", "get", q, "")]
    /\ UNCHANGED <<storeVars, filterMetric, now, nextUid, ingestLimit, exporter, writer,
                   pushErr, histVars>>

\* handleGetLogs, lines 230-247
handleGetLogsGet(r) ==
    /\ rd[r].op = "logs" /\ rd[r].pc = "get" /\ writer.kind = "idle"
    /\ LET filtered == FilterLogs(GetFilteredLogs, ParseLogFilterParams(rd[r].q))
       IN  rd' = [rd EXCEPT ![r].resp.body = SeqMap(filtered, LogDataToJSON),
                            ![r].resp.filtered = Len(filtered),
                            ![r].resp.total = Len(GetFilteredLogs),
                            ![r].resp.status = respondJSON(StatusOK, TRUE),
                            ![r].pc = "done"]
    /\ UNCHANGED <<storeVars, filterMetric, filterLog, now, nextUid, ingestLimit, exporter,
                   writer, pushErr, histVars>>

\* handleGetStats, lines 371-374
handleGetStatsBegin(r) ==
    /\ rd[r].pc = "idle" /\ writer.kind = "idle"
    /\ filterMetric' = ""
    /\ rd' = [rd EXCEPT ![r] = Start("stats", "get", DefaultQuery, "")]
    /\ UNCHANGED <<storeVars, filterLog, now, nextUid, ingestLimit, exporter, writer,
                   pushErr, histVars>>

\* handleGetStats, lines 375-378: the two views are fetched
handleGetStatsGet(r) ==
    /\ rd[r].op = "stats" /\ rd[r].pc = "get" /\ writer.kind = "idle"
    /\ filterLog' = ""
    /\ rd' = [rd EXCEPT ![r].resp.stats.metricCount = Len(GetFilteredMetrics),
                        ![r].resp.stats.logCount =
                            Len(SelectSeq(logs, LAMBDA l : LogMatchesView(l, ""))),
                        ![r].pc = "scan"]
    /\ UNCHANGED <<storeVars, filterMetric, now, nextUid, ingestLimit, exporter, writer,
                   pushErr, histVars>>

\* handleGetStatsScan that counts a trace and a service for every span
handleGetStatsScanPerSpan(r) ==
    /\ rd[r].op = "stats" /\ rd[r].pc = "scan"
    /\ rd' = [rd EXCEPT ![r].resp.stats.traceCount = Len(spans),
                        ![r].resp.stats.serviceCount = Len(spans),
                        ![r].pc = "build"]
    /\ UNCHANGED <<storeVars, filterMetric, filterLog, now, nextUid, ingestLimit, exporter,
                   writer, pushErr, histVars>>

\* handleGetStats, lines 380-390: the two loops over *spans
handleGetStatsScan(r) ==
    /\ rd[r].op = "stats" /\ rd[r].pc = "scan"
    /\ rd' = [rd EXCEPT ![r].resp.stats.traceCount =
                            Cardinality({sp.traceID : sp \in Range(spans)}),
                        ![r].resp.stats.serviceCount =
                            Cardinality({sp.serviceName : sp \in Range(spans)}),
                        ![r].pc = "build"]
    /\ UNCHANGED <<storeVars, filterMetric, filterLog, now, nextUid, ingestLimit, exporter,
                   writer, pushErr, histVars>>

\* handleGetStats, lines 392-404: len(*spans) and UpdatedAt()
handleGetStatsBuild(r) ==
    /\ rd[r].op = "stats" /\ rd[r].pc = "build" /\ writer.kind = "idle"
    /\ rd' = [rd EXCEPT ![r].resp.stats.spanCount = Len(spans),
                        ![r].resp.stats.lastUpdated = updatedAt,
                        ![r].resp.status = respondJSON(StatusOK, TRUE),
                        ![r].pc = "done"]
    /\ UNCHANGED <<storeVars, filterMetric, filterLog, now, nextUid, ingestLimit, exporter,
                   writer, pushErr, histVars>>

\* GET /api/traces/{traceID}; svc holds the path value
handleGetTraceByIDRespond(r, traceID) ==
    /\ rd[r].pc = "idle" /\ writer.kind = "idle"
    /\ \E answer \in handleGetTraceByID(traceID) :
         rd' = [rd EXCEPT ![r] = [IdleReader EXCEPT !.op = "trace", !.pc = "done",
                                                    !.svc = traceID,
                                                    !.resp.status = answer.status,
                                                    !.resp.body = answer.result]]
    /\ UNCHANGED <<storeVars, filterMetric, filterLog, now, nextUid, ingestLimit, exporter,
                   writer, pushErr, histVars>>

\* GET /api/services
handleGetServicesRespond(r) ==
    /\ rd[r].pc = "idle" /\ writer.kind = "idle"
    /\ \E services \in Orderings(handleGetServices) :
         rd' = [rd EXCEPT ![r] = [IdleReader EXCEPT !.op = "services", !.pc = "done",
                                                    !.resp.status =
                                                        respondJSON(StatusOK, TRUE),
                                                    !.resp.body = services]]
    /\ UNCHANGED <<storeVars, filterMetric, filterLog, now, nextUid, ingestLimit, exporter,
                   writer, pushErr, histVars>>

\* GET /api/topology
handleGetTopology(r) ==
    /\ rd[r].pc = "idle" /\ writer.kind = "idle"
    /\ \E topology \in buildTopology(TraceCache) :
         rd' = [rd EXCEPT ![r] = [IdleReader EXCEPT !.op = "topology", !.pc = "done",
                                                    !.resp.status =
                                                        respondJSON(StatusOK, TRUE),
                                                    !.resp.body = topology]]
    /\ UNCHANGED <<storeVars, filterMetric, filterLog, now, nextUid, ingestLimit, exporter,
                   writer, pushErr, histVars>>

StatusNoContent == 204

StatusMethodNotAllowed == 405

\* the headers Server.ServeHTTP sets on every response
CORSHeaders ==
    {<<"Access-Control-Allow-Origin", "*">>,
     <<"Access-Control-Allow-Methods", "GET, POST, PUT, DELETE, OPTIONS, PATCH, HEAD">>,
     <<"Access-Control-Allow-Headers", "*">>,
     <<"Access-Control-Allow-Credentials", "true">>,
     <<"Access-Control-Expose-Headers", "*">>,
     <<"Access-Control-Max-Age", "86400">>}

\* the mux's pattern for a path: three of the routes of setupRoutes, every
\* other path is unmatched
Route(path) ==
    CASE path = "/api/services" -> [handler |-> "handleGetServices", arg |-> ""]
      [] path = "/api/spans/s1" -> [handler |-> "handleGetSpanByID", arg |-> "s1"]
      [] path = "/api/metrics/front" ->
           [handler |-> "handleGetMetricsByService", arg |-> "front"]
      [] OTHER -> [handler |-> "NotFound", arg |-> ""]

\* what the mux and the route handler write, and the query the handler leaves
\* in the store's metric view
Dispatch(method, path) ==
    LET route == Route(path)
        view == SelectSeq(metrics, LAMBDA m : MetricMatchesView(m, route.arg))
    IN  CASE route.handler = "NotFound" ->
               {[status |-> StatusNotFound, body |-> <<>>, filterMetric |-> filterMetric]}
          [] route.handler # "NotFound" /\ method # "GET" ->
               {[status |-> StatusMethodNotAllowed, body |-> <<>>,
                 filterMetric |-> filterMetric]}
          [] method = "GET" /\ route.handler = "handleGetServices" ->
               {[status |-> respondJSON(StatusOK, TRUE), body |-> services,
                 filterMetric |-> filterMetric] :
                   services \in Orderings(handleGetServices)}
          [] method = "GET" /\ route.handler = "handleGetSpanByID" ->
               {[status |-> handleGetSpanByID(route.arg).status,
                 body |-> <<SpanDataToJSON(handleGetSpanByID(route.arg).span)>>,
                 filterMetric |-> filterMetric]}
          [] method = "GET" /\ route.handler = "handleGetMetricsByService" ->
               {[status |-> respondJSON(StatusOK,
                                        MetricsEncode(SeqMap(view, MetricDataToJSON))),
                 body |-> SeqMap(view, MetricDataToJSON),
                 filterMetric |-> route.arg]}

\* Server.ServeHTTP with the CORS headers set only on the way to the mux
ServeHTTPHeadersLate(r, method, path) ==
    /\ rd[r].pc = "idle" /\ writer.kind = "idle"
    /\ IF method = "OPTIONS"
       THEN /\ rd' = [rd EXCEPT ![r] = [IdleReader EXCEPT
                          !.op = method, !.pc = "done", !.svc = path,
                          !.resp.status = StatusNoContent]]
            /\ UNCHANGED filterMetric
       ELSE \E answer \in Dispatch(method, path) :
                /\ rd' = [rd EXCEPT ![r] = [IdleReader EXCEPT
                              !.op = method, !.pc = "done", !.svc = path,
                              !.resp.headers = CORSHeaders,
                              !.resp.status = answer.status,
                              !.resp.body = answer.body]]
                /\ filterMetric' = answer.filterMetric
    /\ UNCHANGED <<storeVars, filterLog, now, nextUid, ingestLimit, exporter, writer,
                   pushErr, histVars>>

\* Server.ServeHTTP (handlers.go:52-67); op holds the method and svc the path
ServeHTTP(r, method, path) ==
    /\ rd[r].pc = "idle" /\ writer.kind = "idle"
    /\ IF method = "OPTIONS"
       THEN /\ rd' = [rd EXCEPT ![r] = [IdleReader EXCEPT
                          !.op = method, !.pc = "done", !.svc = path,
                          !.resp.headers = CORSHeaders,
                          !.resp.status = StatusNoContent]]
            /\ UNCHANGED filterMetric
       ELSE \E answer \in Dispatch(method, path) :
                /\ rd' = [rd EXCEPT ![r] = [IdleReader EXCEPT
                              !.op = method, !.pc = "done", !.svc = path,
                              !.resp.headers = CORSHeaders,
                              !.resp.status = answer.status,
                              !.resp.body = answer.body]]
                /\ filterMetric' = answer.filterMetric
    /\ UNCHANGED <<storeVars, filterLog, now, nextUid, ingestLimit, exporter, writer,
                   pushErr, histVars>>

\* respondJSON has written the response; the goroutine ends
Respond(r) ==
    /\ rd[r].pc = "done"
    /\ rd' = [rd EXCEPT ![r] = IdleReader]
    /\ UNCHANGED <<storeVars, filterMetric, filterLog, now, nextUid, ingestLimit, exporter,
                   writer, pushErr, histVars>>

(***************************************************************************)
(* The exporter's ingest interface (exporter.go:74-90) over the store's    *)
(* batch insertion (specification 4.C and 5): the exclusive lock is held   *)
(* for the whole batch and the update timestamp advances once at its end.  *)
(***************************************************************************)
pushTracesReturn == "nil"

pushMetricsReturn == "nil"

pushLogsReturn == "nil"

Idle == [kind |-> "idle", left |-> 0]

(***************************************************************************)
(* tuiExporter (exporter.go).                                              *)
(***************************************************************************)
\* newTuiExporter: the TUI app is created in both modes, the HTTP server
\* only for a port above zero
newTuiExporter(config) ==
    [serverOnly |-> config.ServerOnly, httpPort |-> config.HTTPPort,
     app |-> "created",
     httpServer |-> IF config.HTTPPort > 0 THEN "created" ELSE "nil",
     appGo |-> "none", serveGo |-> "none",
     start |-> "new", shutdown |-> "new", ctxDone |-> FALSE, calls |-> <<>>]

\* an exporter in server-only mode whose HTTP server is listening
ServingExporter ==
    [newTuiExporter([ServerOnly |-> TRUE, HTTPPort |-> 1]) EXCEPT
        !.httpServer = "listening", !.serveGo = "ran", !.start = "wait",
        !.calls = <<"httpServer.ListenAndServe">>]

restUnchanged ==
    UNCHANGED <<storeVars, filterMetric, filterLog, now, nextUid, ingestLimit,
                writer, pushErr, histVars, rd>>

\* Start, lines 95-102
StartApp ==
    /\ exporter.start = "new"
    /\ exporter' = [exporter EXCEPT
                       !.appGo = IF ~exporter.serverOnly THEN "spawned" ELSE @,
                       !.start = "http"]
    /\ restUnchanged

\* the goroutine of lines 96-101
appRun ==
    /\ exporter.appGo = "spawned"
    /\ exporter' = [exporter EXCEPT
                       !.appGo = "ran",
                       !.app = IF @ = "created" THEN "running" ELSE @,
                       !.calls = Append(@, "app.Run")]
    /\ restUnchanged

\* Start, lines 105-112
StartHTTPServer ==
    /\ exporter.start = "http"
    /\ exporter' = [exporter EXCEPT
                       !.serveGo = IF exporter.httpServer # "nil" THEN "spawned" ELSE @,
                       !.start = "wait"]
    /\ restUnchanged

\* the goroutine of lines 106-111; a server shut down before it listens
\* answers ErrServerClosed
ListenAndServe ==
    /\ exporter.serveGo = "spawned"
    /\ exporter' = [exporter EXCEPT
                       !.serveGo = "ran",
                       !.httpServer = IF @ = "created" THEN "listening" ELSE @,
                       !.calls = Append(@, "httpServer.ListenAndServe")]
    /\ restUnchanged

\* Start that returns whether or not the context is done
StartWaitNever ==
    /\ exporter.start = "wait"
    /\ exporter' = [exporter EXCEPT !.start = "returned"]
    /\ restUnchanged

\* Start, lines 115-120: <-ctx.Done() in server-only mode, then return nil
StartWait ==
    /\ exporter.start = "wait"
    /\ exporter.serverOnly => exporter.ctxDone
    /\ exporter' = [exporter EXCEPT !.start = "returned"]
    /\ restUnchanged

\* the context of Start is cancelled
ctxCancel ==
    /\ ~exporter.ctxDone
    /\ exporter' = [exporter EXCEPT !.ctxDone = TRUE]
    /\ restUnchanged

\* Shutdown, lines 126-130; an error of the server's Shutdown is printed
ShutdownHTTPServer ==
    /\ exporter.shutdown = "new"
    /\ exporter' = [exporter EXCEPT
                       !.httpServer = IF @ # "nil" THEN "closed" ELSE @,
                       !.calls = IF exporter.httpServer # "nil"
                                 THEN Append(@, "httpServer.Shutdown") ELSE @,
                       !.shutdown = "app"]
    /\ restUnchanged

\* Shutdown, lines 133-137
ShutdownApp ==
    /\ exporter.shutdown = "app"
    /\ exporter' = [exporter EXCEPT
                       !.app = IF ~exporter.serverOnly THEN "stopped" ELSE @,
                       !.calls = IF ~exporter.serverOnly
                                 THEN Append(@, "app.Stop") ELSE @,
                       !.shutdown = "returned"]
    /\ restUnchanged

Budget == Min(MaxBatch, ingestLimit + 1 - nextUid)

\* the wall clock moves on
Tick ==
    /\ now + 1 \in Instants
    /\ now' = now + 1
    /\ UNCHANGED <<storeVars, filterMetric, filterLog, nextUid, ingestLimit, exporter,
                   writer, pushErr, histVars, rd>>

\* pushTraces -> Store.AddSpan: the lock is taken for a batch of n spans
pushTracesBegin ==
    /\ writer.kind = "idle"
    /\ \E n \in 0..Budget : writer' = [kind |-> "traces", left |-> n]
    /\ UNCHANGED <<storeVars, filterMetric, filterLog, now, nextUid, ingestLimit, exporter,
                   pushErr, histVars, rd>>

\* one span of the batch: evict at the cap, append, index
AddSpanRecord(inputs) ==
    /\ writer.kind = "traces" /\ writer.left > 0
    /\ \E in \in inputs :
         LET r == NewSpanData(in, nextUid, now)
             res == InsertSpan(spans, TraceCache, r)
         IN  /\ spans' = res.arr
             /\ spanByID' = res.cache.spanByID
             /\ spansByTraceID' = res.cache.spansByTraceID
             /\ spansByTraceAndService' = res.cache.spansByTraceAndService
             /\ spansByService' = res.cache.spansByService
             /\ insertedSpans' = Append(insertedSpans, r)
             /\ evictedSpans' = evictedSpans \o res.out
    /\ nextUid' = nextUid + 1
    /\ writer' = [writer EXCEPT !.left = @ - 1]
    /\ UNCHANGED <<metrics, logs, metricsByServiceAndName, metricsByService,
                   logsByTraceID, logsByService, updatedAt, filterMetric, filterLog,
                   now, ingestLimit, exporter, pushErr, insertedMetrics, insertedLogs,
                   evictedMetrics, evictedLogs, rd>>

\* the batch is in: the update timestamp advances, the lock is released and
\* pushTraces returns
pushTracesEnd ==
    /\ writer.kind = "traces" /\ writer.left = 0
    /\ updatedAt' = now
    /\ writer' = Idle
    /\ pushErr' = pushTracesReturn
    /\ rd' = Observe(rd, [Snapshot EXCEPT !.updatedAt = now])
    /\ UNCHANGED <<spans, metrics, logs, spanByID, spansByTraceID,
                   spansByTraceAndService, spansByService,
                   metricsByServiceAndName, metricsByService,
                   logsByTraceID, logsByService, filterMetric, filterLog,
                   now, nextUid, ingestLimit, exporter, histVars>>

pushMetricsBegin ==
    /\ writer.kind = "idle"
    /\ \E n \in 0..Budget : writer' = [kind |-> "metrics", left |-> n]
    /\ UNCHANGED <<storeVars, filterMetric, filterLog, now, nextUid, ingestLimit, exporter,
                   pushErr, histVars, rd>>

AddMetricRecord(inputs) ==
    /\ writer.kind = "metrics" /\ writer.left > 0
    /\ \E in \in inputs :
         LET r == NewMetricData(in, nextUid, now)
             res == InsertMetric(metrics, MetricCache, r)
         IN  /\ metrics' = res.arr
             /\ metricsByServiceAndName' = res.cache.metricsByServiceAndName
             /\ metricsByService' = res.cache.metricsByService
             /\ insertedMetrics' = Append(insertedMetrics, r)
             /\ evictedMetrics' = evictedMetrics \o res.out
    /\ nextUid' = nextUid + 1
    /\ writer' = [writer EXCEPT !.left = @ - 1]
    /\ UNCHANGED <<spans, logs, spanByID, spansByTraceID, spansByTraceAndService,
                   spansByService, logsByTraceID, logsByService, updatedAt,
                   filterMetric, filterLog, now, ingestLimit, exporter, pushErr,
                   insertedSpans, insertedLogs, evictedSpans, evictedLogs, rd>>

pushMetricsEnd ==
    /\ writer.kind = "metrics" /\ writer.left = 0
    /\ updatedAt' = now
    /\ writer' = Idle
    /\ pushErr' = pushMetricsReturn
    /\ rd' = Observe(rd, [Snapshot EXCEPT !.updatedAt = now])
    /\ UNCHANGED <<spans, metrics, logs, spanByID, spansByTraceID,
                   spansByTraceAndService, spansByService,
                   metricsByServiceAndName, metricsByService,
                   logsByTraceID, logsByService, filterMetric, filterLog,
                   now, nextUid, ingestLimit, exporter, histVars>>

pushLogsBegin ==
    /\ writer.kind = "idle"
    /\ \E n \in 0..Budget : writer' = [kind |-> "logs", left |-> n]
    /\ UNCHANGED <<storeVars, filterMetric, filterLog, now, nextUid, ingestLimit, exporter,
                   pushErr, histVars, rd>>

AddLogRecord(inputs) ==
    /\ writer.kind = "logs" /\ writer.left > 0
    /\ \E in \in inputs :
         LET r == NewLogData(in, nextUid, now)
             res == InsertLog(logs, LogCache, r)
         IN  /\ logs' = res.arr
             /\ logsByTraceID' = res.cache.logsByTraceID
             /\ logsByService' = res.cache.logsByService
             /\ insertedLogs' = Append(insertedLogs, r)
             /\ evictedLogs' = evictedLogs \o res.out
    /\ nextUid' = nextUid + 1
    /\ writer' = [writer EXCEPT !.left = @ - 1]
    /\ UNCHANGED <<spans, metrics, spanByID, spansByTraceID,
                   spansByTraceAndService, spansByService,
                   metricsByServiceAndName, metricsByService, updatedAt,
                   filterMetric, filterLog, now, ingestLimit, exporter, pushErr,
                   insertedSpans, insertedMetrics, evictedSpans, evictedMetrics, rd>>

\* pushLogsEnd that releases the lock without advancing the update timestamp
pushLogsEndStale ==
    /\ writer.kind = "logs" /\ writer.left = 0
    /\ updatedAt' = updatedAt
    /\ writer' = Idle
    /\ pushErr' = pushLogsReturn
    /\ rd' = Observe(rd, Snapshot)
    /\ UNCHANGED <<spans, metrics, logs, spanByID, spansByTraceID,
                   spansByTraceAndService, spansByService,
                   metricsByServiceAndName, metricsByService,
                   logsByTraceID, logsByService, filterMetric, filterLog,
                   now, nextUid, ingestLimit, exporter, histVars>>

pushLogsEnd ==
    /\ writer.kind = "logs" /\ writer.left = 0
    /\ updatedAt' = now
    /\ writer' = Idle
    /\ pushErr' = pushLogsReturn
    /\ rd' = Observe(rd, [Snapshot EXCEPT !.updatedAt = now])
    /\ UNCHANGED <<spans, metrics, logs, spanByID, spansByTraceID,
                   spansByTraceAndService, spansByService,
                   metricsByServiceAndName, metricsByService,
                   logsByTraceID, logsByService, filterMetric, filterLog,
                   now, nextUid, ingestLimit, exporter, histVars>>

(***************************************************************************)
(* Spec: the store under the ingest path alone.                            *)
(***************************************************************************)
InitStore ==
    /\ spans = <<>> /\ metrics = <<>> /\ logs = <<>>
    /\ spanByID = EmptyMap /\ spansByTraceID = EmptyMap
    /\ spansByTraceAndService = EmptyMap /\ spansByService = EmptyMap
    /\ metricsByServiceAndName = EmptyMap /\ metricsByService = EmptyMap
    /\ logsByTraceID = EmptyMap /\ logsByService = EmptyMap
    /\ updatedAt = 0
    /\ filterMetric = "" /\ filterLog = ""
    /\ now = 1 /\ nextUid = 1
    /\ writer = Idle
    /\ pushErr = "none"
    /\ insertedSpans = <<>> /\ insertedMetrics = <<>> /\ insertedLogs = <<>>
    /\ evictedSpans = <<>> /\ evictedMetrics = <<>> /\ evictedLogs = <<>>
    /\ rd = [r \in Readers |-> IdleReader]

Init == InitStore /\ ingestLimit = MaxIngest /\ exporter = ServingExporter

Next ==
    \/ Tick
    \/ pushTracesBegin \/ AddSpanRecord(SpanInputs) \/ pushTracesEnd
    \/ pushMetricsBegin \/ AddMetricRecord(MetricInputs) \/ pushMetricsEnd
    \/ pushLogsBegin \/ AddLogRecord(LogInputs) \/ pushLogsEnd

Spec == Init /\ [][Next]_vars

(***************************************************************************)
(* SpecReaders: HTTP handlers run beside the ingest path.                  *)
(***************************************************************************)
InitReaders ==
    InitStore /\ ingestLimit = MaxIngestReaders /\ exporter = ServingExporter

\* what the collector delivers while the handlers are watched
ReaderSpanInputs == {in \in SpanInputs : in.traceID = "t1" /\ in.spanID = "s1"}

NextReaders ==
    \/ pushTracesBegin \/ AddSpanRecord(ReaderSpanInputs) \/ pushTracesEnd
    \/ pushMetricsBegin \/ AddMetricRecord(MetricInputs) \/ pushMetricsEnd
    \/ \E r \in Readers : handleGetTracesBegin(r, DefaultQuery)
    \/ \E r \in Readers : handleGetTracesHeaders(r)
    \/ \E r \in Readers : handleGetMetricsBegin(r, DefaultQuery)
    \/ \E r \in Readers : handleGetMetricsGet(r)
    \/ \E r \in Readers, service \in Services : handleGetMetricsByServiceBegin(r, service)
    \/ \E r \in Readers : handleGetMetricsByServiceGet(r)
    \/ \E r \in Readers : handleGetStatsBegin(r)
    \/ \E r \in Readers : handleGetStatsGet(r)
    \/ \E r \in Readers : handleGetStatsScan(r)
    \/ \E r \in Readers : handleGetStatsBuild(r)
    \/ \E r \in Readers : Respond(r)

SpecReaders == InitReaders /\ [][NextReaders]_vars

(***************************************************************************)
(* SpecQuery: GET /api/traces on a store that has received one batch of    *)
(* spans of one service, for every query of TraceQueries.                  *)
(***************************************************************************)
QuerySpanInputs ==
    [traceID : {"t1"}, spanID : {""}, parentSpanID : {""}, serviceName : {"front"},
     name : {"GET", "POST"}, duration : {Millisecond, 2 * Millisecond},
     status : {"Ok", "Error"}]

\* batches of spans with distinct ids, received at instants that do not decrease
QueryBatches ==
    UNION {
        {[i \in 1..n |->
             NewSpanData([b[i][1] EXCEPT !.spanID = SpanIDSeq[i]], i, b[i][2])] :
            b \in {c \in [1..n -> QuerySpanInputs \X Instants] :
                      \A i \in 1..(n - 1) : c[i][2] <= c[i + 1][2]}} :
        n \in 0..Min(MAX_SERVICE_SPAN_COUNT, Len(SpanIDSeq))}

EmptyTraceCache ==
    [spanByID |-> EmptyMap, spansByTraceID |-> EmptyMap,
     spansByTraceAndService |-> EmptyMap, spansByService |-> EmptyMap]

RECURSIVE LoadSpans(_, _)
LoadSpans(st, batch) ==
    IF batch = <<>> THEN st
    ELSE LoadSpans(InsertSpan(st.arr, st.cache, Head(batch)), Tail(batch))

QueryReader == "r1"

InitQuery ==
    /\ \E batch \in QueryBatches :
         LET st == LoadSpans([arr |-> <<>>, cache |-> EmptyTraceCache, out |-> <<>>], batch)
         IN  /\ spans = st.arr
             /\ spanByID = st.cache.spanByID
             /\ spansByTraceID = st.cache.spansByTraceID
             /\ spansByTraceAndService = st.cache.spansByTraceAndService
             /\ spansByService = st.cache.spansByService
             /\ insertedSpans = batch
             /\ nextUid = Len(batch) + 1
             /\ now = IF batch = <<>> THEN 1 ELSE batch[Len(batch)].receivedAt
             /\ updatedAt = IF batch = <<>> THEN 1 ELSE batch[Len(batch)].receivedAt
    /\ metrics = <<>> /\ logs = <<>>
    /\ metricsByServiceAndName = EmptyMap /\ metricsByService = EmptyMap
    /\ logsByTraceID = EmptyMap /\ logsByService = EmptyMap
    /\ filterMetric = "" /\ filterLog = ""
    /\ ingestLimit = 0
    /\ exporter = ServingExporter
    /\ writer = Idle
    /\ pushErr = "nil"
    /\ insertedMetrics = <<>> /\ insertedLogs = <<>>
    /\ evictedSpans = <<>> /\ evictedMetrics = <<>> /\ evictedLogs = <<>>
    /\ rd = [r \in Readers |-> IdleReader]

NextQuery ==
    \/ \E q \in TraceQueries : handleGetTracesBegin(QueryReader, q)
    \/ handleGetTracesHeaders(QueryReader)
    \/ Respond(QueryReader)

SpecQuery == InitQuery /\ [][NextQuery]_vars

(***************************************************************************)
(* SpecTopology: two servers whose stores received the same batch of       *)
(* spans, parents and service names varying, answer the endpoints that     *)
(* list services.  The stores are equal, so one store stands for both and  *)
(* each reader is a request to one of the servers.                         *)
(***************************************************************************)
TopologyServices == {"front", "front->front"}

TopologySpanInputs ==
    [traceID : {"t1"}, spanID : {""}, parentSpanID : {"", "s1", "s2"},
     serviceName : TopologyServices, name : {"GET"}, duration : {1},
     status : {"Unset"}]

\* batches of spans with distinct ids, one more than the cap at most
TopologyBatches ==
    UNION {
        {[i \in 1..n |-> NewSpanData([b[i] EXCEPT !.spanID = SpanIDSeq[i]], i, 1)] :
            b \in [1..n -> TopologySpanInputs]} :
        n \in 0..Min(MAX_SERVICE_SPAN_COUNT + 1, Len(SpanIDSeq))}

InitTopology ==
    /\ \E batch \in TopologyBatches :
         LET st == LoadSpans([arr |-> <<>>, cache |-> EmptyTraceCache, out |-> <<>>], batch)
         IN  /\ spans = st.arr
             /\ spanByID = st.cache.spanByID
             /\ spansByTraceID = st.cache.spansByTraceID
             /\ spansByTraceAndService = st.cache.spansByTraceAndService
             /\ spansByService = st.cache.spansByService
             /\ insertedSpans = batch
             /\ evictedSpans = SubSeq(batch, 1, Len(batch) - Len(st.arr))
             /\ nextUid = Len(batch) + 1
    /\ now = 1 /\ updatedAt = 1
    /\ metrics = <<>> /\ logs = <<>>
    /\ metricsByServiceAndName = EmptyMap /\ metricsByService = EmptyMap
    /\ logsByTraceID = EmptyMap /\ logsByService = EmptyMap
    /\ filterMetric = "" /\ filterLog = ""
    /\ ingestLimit = 0
    /\ exporter = ServingExporter
    /\ writer = Idle
    /\ pushErr = "nil"
    /\ insertedMetrics = <<>> /\ insertedLogs = <<>>
    /\ evictedMetrics = <<>> /\ evictedLogs = <<>>
    /\ rd = [r \in Readers |-> IdleReader]

NextTopology ==
    \/ \E r \in Readers : handleGetTraceByIDRespond(r, "t1")
    \/ \E r \in Readers : handleGetServicesRespond(r)
    \/ \E r \in Readers : handleGetTopology(r)

SpecTopology == InitTopology /\ [][NextTopology]_vars

(***************************************************************************)
(* SpecEncode: the metric endpoints on a store that has received one batch *)
(* of gauges, some of them with a data point that is not a number.         *)
(***************************************************************************)
EncodeMetricInputs ==
    [serviceName : Services, name : MetricNames, type : {"Gauge"},
     value : {"1", "NaN"}]

EncodeBatches ==
    UNION {
        {[i \in 1..n |-> NewMetricData(b[i], i, 1)] : b \in [1..n -> EncodeMetricInputs]} :
        n \in 0..MAX_METRIC_COUNT}

EmptyMetricCache == [metricsByServiceAndName |-> EmptyMap, metricsByService |-> EmptyMap]

RECURSIVE LoadMetrics(_, _)
LoadMetrics(st, batch) ==
    IF batch = <<>> THEN st
    ELSE LoadMetrics(InsertMetric(st.arr, st.cache, Head(batch)), Tail(batch))

InitEncode ==
    /\ \E batch \in EncodeBatches :
         LET st == LoadMetrics([arr |-> <<>>, cache |-> EmptyMetricCache, out |-> <<>>],
                               batch)
         IN  /\ metrics = st.arr
             /\ metricsByServiceAndName = st.cache.metricsByServiceAndName
             /\ metricsByService = st.cache.metricsByService
             /\ insertedMetrics = batch
             /\ nextUid = Len(batch) + 1
    /\ now = 1 /\ updatedAt = 1
    /\ spans = <<>> /\ logs = <<>>
    /\ spanByID = EmptyMap /\ spansByTraceID = EmptyMap
    /\ spansByTraceAndService = EmptyMap /\ spansByService = EmptyMap
    /\ logsByTraceID = EmptyMap /\ logsByService = EmptyMap
    /\ filterMetric = "" /\ filterLog = ""
    /\ ingestLimit = 0
    /\ exporter = ServingExporter
    /\ writer = Idle
    /\ pushErr = "nil"
    /\ insertedSpans = <<>> /\ insertedLogs = <<>>
    /\ evictedSpans = <<>> /\ evictedMetrics = <<>> /\ evictedLogs = <<>>
    /\ rd = [r \in Readers |-> IdleReader]

NextEncode ==
    \/ handleGetMetricsBegin(QueryReader, DefaultQuery)
    \/ handleGetMetricsGet(QueryReader)
    \/ \E service \in Services : handleGetMetricsByServiceBegin(QueryReader, service)
    \/ handleGetMetricsByServiceGet(QueryReader)
    \/ Respond(QueryReader)

SpecEncode == InitEncode /\ [][NextEncode]_vars

(***************************************************************************)
(* SpecLogs: GET /api/logs with a min_severity parameter on a store that   *)
(* has received one batch of logs.                                         *)
(***************************************************************************)
SeverityNumbers == {1, 5, 9, 12, 13, 17, 21}

LogBatch(severities) ==
    [i \in 1..Len(severities) |->
        NewLogData([serviceName |-> "front", traceID |-> "",
                    severityNumber |-> severities[i], severityText |-> "INFO",
                    body |-> "msg", timestamp |-> 1], i, 1)]

SeverityBatches ==
    UNION {{LogBatch(severities) : severities \in [1..n -> SeverityNumbers]} :
              n \in 0..MAX_LOG_COUNT}

MinSeverityNames ==
    {"", "trace", "debug", "info", "warn", "WARN", "Warn", "error", "fatal", "Fatal",
     "bogus", "warning"}

SeverityQueries == {[DefaultQuery EXCEPT !.min_severity = name] : name \in MinSeverityNames}

EmptyLogCache == [logsByTraceID |-> EmptyMap, logsByService |-> EmptyMap]

RECURSIVE LoadLogs(_, _)
LoadLogs(st, batch) ==
    IF batch = <<>> THEN st
    ELSE LoadLogs(InsertLog(st.arr, st.cache, Head(batch)), Tail(batch))

InitLogs ==
    /\ \E batch \in SeverityBatches :
         LET st == LoadLogs([arr |-> <<>>, cache |-> EmptyLogCache, out |-> <<>>], batch)
         IN  /\ logs = st.arr
             /\ logsByTraceID = st.cache.logsByTraceID
             /\ logsByService = st.cache.logsByService
             /\ insertedLogs = batch
             /\ nextUid = Len(batch) + 1
    /\ now = 1 /\ updatedAt = 1
    /\ spans = <<>> /\ metrics = <<>>
    /\ spanByID = EmptyMap /\ spansByTraceID = EmptyMap
    /\ spansByTraceAndService = EmptyMap /\ spansByService = EmptyMap
    /\ metricsByServiceAndName = EmptyMap /\ metricsByService = EmptyMap
    /\ filterMetric = "" /\ filterLog = ""
    /\ ingestLimit = 0
    /\ exporter = ServingExporter
    /\ writer = Idle
    /\ pushErr = "nil"
    /\ insertedSpans = <<>> /\ insertedMetrics = <<>>
    /\ evictedSpans = <<>> /\ evictedMetrics = <<>> /\ evictedLogs = <<>>
    /\ rd = [r \in Readers |-> IdleReader]

NextLogs ==
    \/ \E q \in SeverityQueries : handleGetLogsBegin(QueryReader, q)
    \/ handleGetLogsGet(QueryReader)
    \/ Respond(QueryReader)

SpecLogs == InitLogs /\ [][NextLogs]_vars

(***************************************************************************)
(* SpecPagination: GET /api/traces for every kind of offset and limit      *)
(* parameter on a store that has received one batch of spans.              *)
(***************************************************************************)
\* absent, text, negative, zero, small, at and above the cap of the limit, at
\* and beyond the ends of the range of int
RawNumbers ==
    {Absent, NotANumber, Num(-1), Num(0), Num(1), Num(2), Num(MaxLimit),
     Num(MaxLimit + 1), Num(MaxInt), Num(MaxInt + 1), Num(MinInt - 1)}

PaginationQueries ==
    {[DefaultQuery EXCEPT !.offset = off, !.limit = lim] :
        off \in RawNumbers, lim \in RawNumbers}

PaginationBatches ==
    {[i \in 1..n |->
         NewSpanData([traceID |-> "t1", spanID |-> SpanIDSeq[i], parentSpanID |-> "",
                      serviceName |-> "front", name |-> "GET", duration |-> 1,
                      status |-> "Unset"], i, 1)] :
        n \in 0..Min(MAX_SERVICE_SPAN_COUNT, Len(SpanIDSeq))}

InitPagination ==
    /\ \E batch \in PaginationBatches :
         LET st == LoadSpans([arr |-> <<>>, cache |-> EmptyTraceCache, out |-> <<>>], batch)
         IN  /\ spans = st.arr
             /\ spanByID = st.cache.spanByID
             /\ spansByTraceID = st.cache.spansByTraceID
             /\ spansByTraceAndService = st.cache.spansByTraceAndService
             /\ spansByService = st.cache.spansByService
             /\ insertedSpans = batch
             /\ nextUid = Len(batch) + 1
    /\ now = 1 /\ updatedAt = 1
    /\ metrics = <<>> /\ logs = <<>>
    /\ metricsByServiceAndName = EmptyMap /\ metricsByService = EmptyMap
    /\ logsByTraceID = EmptyMap /\ logsByService = EmptyMap
    /\ filterMetric = "" /\ filterLog = ""
    /\ ingestLimit = 0
    /\ exporter = ServingExporter
    /\ writer = Idle
    /\ pushErr = "nil"
    /\ insertedMetrics = <<>> /\ insertedLogs = <<>>
    /\ evictedSpans = <<>> /\ evictedMetrics = <<>> /\ evictedLogs = <<>>
    /\ rd = [r \in Readers |-> IdleReader]

NextPagination ==
    \/ \E q \in PaginationQueries : handleGetTracesBegin(QueryReader, q)
    \/ handleGetTracesHeaders(QueryReader)
    \/ Respond(QueryReader)

SpecPagination == InitPagination /\ [][NextPagination]_vars

(***************************************************************************)
(* SpecFilters: the three list endpoints with every combination of filter  *)
(* parameters on a store that has received one batch of one signal.        *)
(***************************************************************************)
FilterSpanBatches ==
    UNION {
        {[i \in 1..n |-> NewSpanData([b[i] EXCEPT !.spanID = SpanIDSeq[i]], i, 1)] :
            b \in [1..n -> QuerySpanInputs]} :
        n \in 0..Min(MAX_SERVICE_SPAN_COUNT, Len(SpanIDSeq))}

FilterMetricInputs ==
    [serviceName : {"front"}, name : {"cpu", "mem"}, type : {"Gauge", "Sum"},
     value : {"1"}]

FilterMetricBatches ==
    UNION {
        {[i \in 1..n |-> NewMetricData(b[i], i, 1)] : b \in [1..n -> FilterMetricInputs]} :
        n \in 0..MAX_METRIC_COUNT}

FilterLogInputs ==
    {in \in [serviceName : {"front"}, traceID : {"", "t1"}, severityNumber : {9, 17},
             severityText : {"INFO", "ERROR"}, body : {"msg", "boom"},
             timestamp : {1}] :
        in.severityText = "ERROR" <=> in.severityNumber = 17}

FilterLogBatches ==
    UNION {
        {[i \in 1..n |-> NewLogData(b[i], i, 1)] : b \in [1..n -> FilterLogInputs]} :
        n \in 0..MAX_LOG_COUNT}

TraceFilterQueries ==
    {[DefaultQuery EXCEPT !.service = sv, !.status = st, !.min_duration_ms = mn,
                          !.max_duration_ms = mx] :
        sv \in {"", "t po"}, st \in {"", "ERROR", "bogus"}, mn \in {Absent, Num(2)},
        mx \in {Absent, Num(1)}}

MetricFilterQueries ==
    {[DefaultQuery EXCEPT !.service = sv, !.metric = mt, !.type = ty, !.end_time = t1] :
        sv \in {"", "nt c"}, mt \in {"", "CPU", "m"}, ty \in {"", "gauge", "histogram"},
        t1 \in {Absent, Num(0), Num(1)}}

LogFilterQueries ==
    {[DefaultQuery EXCEPT !.service = sv, !.severity = sev, !.min_severity = ms,
                          !.body = bd, !.trace_id = tr] :
        sv \in {"", "FRONT"}, sev \in {"", "Err"}, ms \in {"", "error"},
        bd \in {"", "BOO"}, tr \in {"", "t1"}}

InitFilters ==
    /\ \/ /\ \E batch \in FilterSpanBatches :
               LET st == LoadSpans([arr |-> <<>>, cache |-> EmptyTraceCache,
                                    out |-> <<>>], batch)
               IN  /\ spans = st.arr
                   /\ spanByID = st.cache.spanByID
                   /\ spansByTraceID = st.cache.spansByTraceID
                   /\ spansByTraceAndService = st.cache.spansByTraceAndService
                   /\ spansByService = st.cache.spansByService
                   /\ insertedSpans = batch
                   /\ nextUid = Len(batch) + 1
          /\ metrics = <<>> /\ logs = <<>>
          /\ metricsByServiceAndName = EmptyMap /\ metricsByService = EmptyMap
          /\ logsByTraceID = EmptyMap /\ logsByService = EmptyMap
          /\ insertedMetrics = <<>> /\ insertedLogs = <<>>
       \/ /\ \E batch \in FilterMetricBatches \ {<<>>} :
               LET st == LoadMetrics([arr |-> <<>>, cache |-> EmptyMetricCache,
                                      out |-> <<>>], batch)
               IN  /\ metrics = st.arr
                   /\ metricsByServiceAndName = st.cache.metricsByServiceAndName
                   /\ metricsByService = st.cache.metricsByService
                   /\ insertedMetrics = batch
                   /\ nextUid = Len(batch) + 1
          /\ spans = <<>> /\ logs = <<>>
          /\ spanByID = EmptyMap /\ spansByTraceID = EmptyMap
          /\ spansByTraceAndService = EmptyMap /\ spansByService = EmptyMap
          /\ logsByTraceID = EmptyMap /\ logsByService = EmptyMap
          /\ insertedSpans = <<>> /\ insertedLogs = <<>>
       \/ /\ \E batch \in FilterLogBatches \ {<<>>} :
               LET st == LoadLogs([arr |-> <<>>, cache |-> EmptyLogCache,
                                   out |-> <<>>], batch)
               IN  /\ logs = st.arr
                   /\ logsByTraceID = st.cache.logsByTraceID
                   /\ logsByService = st.cache.logsByService
                   /\ insertedLogs = batch
                   /\ nextUid = Len(batch) + 1
          /\ spans = <<>> /\ metrics = <<>>
          /\ spanByID = EmptyMap /\ spansByTraceID = EmptyMap
          /\ spansByTraceAndService = EmptyMap /\ spansByService = EmptyMap
          /\ metricsByServiceAndName = EmptyMap /\ metricsByService = EmptyMap
          /\ insertedSpans = <<>> /\ insertedMetrics = <<>>
    /\ now = 1 /\ updatedAt = 1
    /\ filterMetric = "" /\ filterLog = ""
    /\ ingestLimit = 0
    /\ exporter = ServingExporter
    /\ writer = Idle
    /\ pushErr = "nil"
    /\ evictedSpans = <<>> /\ evictedMetrics = <<>> /\ evictedLogs = <<>>
    /\ rd = [r \in Readers |-> IdleReader]

NextFilters ==
    \/ \E q \in TraceFilterQueries : handleGetTracesBegin(QueryReader, q)
    \/ handleGetTracesHeaders(QueryReader)
    \/ \E q \in MetricFilterQueries : handleGetMetricsBegin(QueryReader, q)
    \/ handleGetMetricsGet(QueryReader)
    \/ \E q \in LogFilterQueries : handleGetLogsBegin(QueryReader, q)
    \/ handleGetLogsGet(QueryReader)
    \/ Respond(QueryReader)

SpecFilters == InitFilters /\ [][NextFilters]_vars

(***************************************************************************)
(* SpecStats: GET /api/stats on a store that has received up to one span   *)
(* more than the cap, traces and services shared or distinct.              *)
(***************************************************************************)
StatsSpanInputs ==
    [traceID : {"t1", "t2", "t3"}, spanID : {""}, parentSpanID : {""},
     serviceName : {"s0", "s1", "s2"}, name : {"GET"}, duration : {1},
     status : {"Unset"}]

StatsBatches ==
    UNION {
        {[i \in 1..n |-> NewSpanData([b[i] EXCEPT !.spanID = SpanIDSeq[i]], i, 1)] :
            b \in [1..n -> StatsSpanInputs]} :
        n \in 0..Min(MAX_SERVICE_SPAN_COUNT + 1, Len(SpanIDSeq))}

InitStats ==
    /\ \E batch \in StatsBatches :
         LET st == LoadSpans([arr |-> <<>>, cache |-> EmptyTraceCache, out |-> <<>>], batch)
         IN  /\ spans = st.arr
             /\ spanByID = st.cache.spanByID
             /\ spansByTraceID = st.cache.spansByTraceID
             /\ spansByTraceAndService = st.cache.spansByTraceAndService
             /\ spansByService = st.cache.spansByService
             /\ insertedSpans = batch
             /\ evictedSpans = SubSeq(batch, 1, Len(batch) - Len(st.arr))
             /\ nextUid = Len(batch) + 1
    /\ now = 1 /\ updatedAt = 1
    /\ metrics = <<>> /\ logs = <<>>
    /\ metricsByServiceAndName = EmptyMap /\ metricsByService = EmptyMap
    /\ logsByTraceID = EmptyMap /\ logsByService = EmptyMap
    /\ filterMetric = "" /\ filterLog = ""
    /\ ingestLimit = 0
    /\ exporter = ServingExporter
    /\ writer = Idle
    /\ pushErr = "nil"
    /\ insertedMetrics = <<>> /\ insertedLogs = <<>>
    /\ evictedMetrics = <<>> /\ evictedLogs = <<>>
    /\ rd = [r \in Readers |-> IdleReader]

NextStats ==
    \/ handleGetStatsBegin(QueryReader)
    \/ handleGetStatsGet(QueryReader)
    \/ handleGetStatsScan(QueryReader)
    \/ handleGetStatsBuild(QueryReader)
    \/ Respond(QueryReader)

SpecStats == InitStats /\ [][NextStats]_vars

(***************************************************************************)
(* SpecServe: requests of several methods and paths to Server.ServeHTTP on *)
(* a store that has received a batch of spans and a batch of gauges.       *)
(***************************************************************************)
ServeMethods == {"OPTIONS", "GET", "POST"}

ServePaths == {"/api/services", "/api/spans/s1", "/api/metrics/front", "/api/nope"}

InitServe ==
    /\ \E batch \in PaginationBatches :
         LET st == LoadSpans([arr |-> <<>>, cache |-> EmptyTraceCache, out |-> <<>>], batch)
         IN  /\ spans = st.arr
             /\ spanByID = st.cache.spanByID
             /\ spansByTraceID = st.cache.spansByTraceID
             /\ spansByTraceAndService = st.cache.spansByTraceAndService
             /\ spansByService = st.cache.spansByService
             /\ insertedSpans = batch
             /\ \E gauges \in EncodeBatches :
                  LET mt == LoadMetrics([arr |-> <<>>, cache |-> EmptyMetricCache,
                                         out |-> <<>>], gauges)
                  IN  /\ metrics = mt.arr
                      /\ metricsByServiceAndName = mt.cache.metricsByServiceAndName
                      /\ metricsByService = mt.cache.metricsByService
                      /\ insertedMetrics = gauges
                      /\ nextUid = Len(batch) + Len(gauges) + 1
    /\ now = 1 /\ updatedAt = 1
    /\ logs = <<>>
    /\ logsByTraceID = EmptyMap /\ logsByService = EmptyMap
    /\ filterMetric = "" /\ filterLog = ""
    /\ ingestLimit = 0
    /\ exporter = ServingExporter
    /\ writer = Idle
    /\ pushErr = "nil"
    /\ insertedLogs = <<>>
    /\ evictedSpans = <<>> /\ evictedMetrics = <<>> /\ evictedLogs = <<>>
    /\ rd = [r \in Readers |-> IdleReader]

NextServe ==
    \/ \E method \in ServeMethods, path \in ServePaths :
           ServeHTTP(QueryReader, method, path)
    \/ Respond(QueryReader)

SpecServe == InitServe /\ [][NextServe]_vars

(***************************************************************************)
(* Properties of the store under ingestion (Spec).                         *)
(***************************************************************************)
\* r is in the slice of m at key k
InSlice(m, k, r) == k \in DOMAIN m /\ r \in Range(m[k])

\* r is in some slice of m
InSomeSlice(m, r) == \E k \in DOMAIN m : r \in Range(m[k])

\* every record in a slice of m is in the array arr
SlicesWithin(m, arr) == \A k \in DOMAIN m : Range(m[k]) \subseteq Range(arr)

Distinct(ids) == \A i, j \in 1..Len(ids) : i # j => ids[i] # ids[j]

\* C1: in every reachable state, the states between two records of one batch
\* included, the span array holds at most MAX_SERVICE_SPAN_COUNT records, the
\* metric array at most MAX_METRIC_COUNT and the log array at most
\* MAX_LOG_COUNT.
CapInvariant ==
    /\ Len(spans) <= MAX_SERVICE_SPAN_COUNT
    /\ Len(metrics) <= MAX_METRIC_COUNT
    /\ Len(logs) <= MAX_LOG_COUNT

\* a batch of spans is still being added, the array is at the cap and an
\* insertion has found it there
CapWitness ==
    /\ writer.kind = "traces"
    /\ Len(spans) = MAX_SERVICE_SPAN_COUNT
    /\ evictedSpans # <<>>

\* C2: after every ingestion step every record of a primary array is found
\* through every index at each key that applies to it (a span through
\* spanByID at its span id too, also when two live spans carry the same
\* span id), and every record an index refers to is in the primary array.
IndexConsistency ==
    /\ \A r \in Range(spans) :
         /\ r.spanID \in DOMAIN spanByID /\ spanByID[r.spanID] = r
         /\ InSlice(spansByTraceID, r.traceID, r)
         /\ InSlice(spansByTraceAndService, <<r.traceID, r.serviceName>>, r)
         /\ InSlice(spansByService, r.serviceName, r)
    /\ \A r \in Range(metrics) :
         /\ InSlice(metricsByServiceAndName, <<r.serviceName, r.name>>, r)
         /\ InSlice(metricsByService, r.serviceName, r)
    /\ \A r \in Range(logs) :
         /\ InSlice(logsByService, r.serviceName, r)
         /\ r.traceID # "" => InSlice(logsByTraceID, r.traceID, r)
    /\ \A k \in DOMAIN spanByID : spanByID[k] \in Range(spans)
    /\ SlicesWithin(spansByTraceID, spans)
    /\ SlicesWithin(spansByTraceAndService, spans)
    /\ SlicesWithin(spansByService, spans)
    /\ SlicesWithin(metricsByServiceAndName, metrics)
    /\ SlicesWithin(metricsByService, metrics)
    /\ SlicesWithin(logsByTraceID, logs)
    /\ SlicesWithin(logsByService, logs)

\* C3: a record evicted at the cap is in no cache under any key; once
\* MAX_SERVICE_SPAN_COUNT + 1 spans with distinct span ids are in, GET
\* /api/spans/{id} answers 404 for the first span's id and 200 with the span
\* for each of the others.
EvictionComplete ==
    /\ \A r \in Range(evictedSpans) :
         /\ \A k \in DOMAIN spanByID : spanByID[k] # r
         /\ ~InSomeSlice(spansByTraceID, r)
         /\ ~InSomeSlice(spansByTraceAndService, r)
         /\ ~InSomeSlice(spansByService, r)
    /\ \A r \in Range(evictedMetrics) :
         ~InSomeSlice(metricsByServiceAndName, r) /\ ~InSomeSlice(metricsByService, r)
    /\ \A r \in Range(evictedLogs) :
         ~InSomeSlice(logsByTraceID, r) /\ ~InSomeSlice(logsByService, r)
    /\ (/\ Len(insertedSpans) = MAX_SERVICE_SPAN_COUNT + 1
        /\ Distinct([i \in 1..Len(insertedSpans) |-> insertedSpans[i].spanID]))
       => /\ handleGetSpanByID(insertedSpans[1].spanID).status = StatusNotFound
          /\ \A i \in 2..Len(insertedSpans) :
               /\ handleGetSpanByID(insertedSpans[i].spanID).status = StatusOK
               /\ handleGetSpanByID(insertedSpans[i].spanID).span = insertedSpans[i]

\* one span more than the cap, all with distinct span ids, has been ingested
EvictionWitness ==
    /\ Len(insertedSpans) = MAX_SERVICE_SPAN_COUNT + 1
    /\ Distinct([i \in 1..Len(insertedSpans) |-> insertedSpans[i].spanID])
    /\ evictedSpans = <<insertedSpans[1]>>

\* C4: pushTraces, pushMetrics and pushLogs return nil, and each primary
\* array is the last min(n, cap) of the n records ever inserted for its
\* signal, in insertion order; what eviction has removed is the records
\* before them, oldest first.
IngestNeverDropsNew ==
    /\ pushErr \in {"none", "nil"}
    /\ evictedSpans \o spans = insertedSpans
    /\ Len(spans) = Min(Len(insertedSpans), MAX_SERVICE_SPAN_COUNT)
    /\ evictedMetrics \o metrics = insertedMetrics
    /\ Len(metrics) = Min(Len(insertedMetrics), MAX_METRIC_COUNT)
    /\ evictedLogs \o logs = insertedLogs
    /\ Len(logs) = Min(Len(insertedLogs), MAX_LOG_COUNT)

\* pushTraces has returned from a batch during which the oldest span was
\* evicted
IngestWitness ==
    /\ pushErr = "nil" /\ writer.kind = "idle"
    /\ evictedSpans # <<>>
    /\ Len(insertedSpans) > MAX_SERVICE_SPAN_COUNT

\* C8: in every reachable store state the GET /api/services response holds
\* no empty string and no name containing "unknown".
ServiceListPure ==
    \A sv \in handleGetServices : sv # "" /\ ~Contains(sv, "unknown")

\* C9: GET /api/services is the union over the three signals: a name that is
\* not empty and does not contain "unknown" and has a live metric or a live
\* log is returned, with or without a live span, and every name returned has
\* a live span, metric or log.
ServiceListIsUnion ==
    /\ \A sv \in getServicesByMetrics \cup getServicesByLogs :
         (sv # "" /\ ~Contains(sv, "unknown")) => sv \in handleGetServices
    /\ \A sv \in handleGetServices :
         \/ \E sp \in Range(spans) : sp.serviceName = sv
         \/ \E m \in Range(metrics) : m.serviceName = sv
         \/ \E l \in Range(logs) : l.serviceName = sv

(***************************************************************************)
(* Properties of the handlers beside the ingest path (SpecReaders).        *)
(***************************************************************************)
\* C5: everything in the response of GET /api/traces and of GET /api/stats
\* (body, X-Total-Count, X-Filtered-Count, the six counters) is what one
\* single store state gives, a state in which no batch was part-way in: the
\* one at the handler's first access or one after a batch completed since.
ConsistentSnapshot ==
    \A r \in Readers :
        (rd[r].pc = "done" /\ rd[r].op \in {"traces", "stats"})
            => rd[r].resp \in rd[r].expect

\* C6: handlers do not affect each other through the service-filtered view:
\* whatever the interleaving of ApplyFilterMetrics and GetFilteredMetrics,
\* GET /api/metrics returns all metrics of the store with X-Total-Count
\* their number, GET /api/stats counts them all, and GET
\* /api/metrics/{service} returns the view for its own service.
ViewsIndependent ==
    \A r \in Readers :
        rd[r].pc = "done" =>
            /\ rd[r].op \in {"metrics", "metricsByService"}
                 => rd[r].resp \in rd[r].expect
            /\ rd[r].op = "stats"
                 => rd[r].resp.stats.metricCount
                      \in {e.stats.metricCount : e \in rd[r].expect}

(***************************************************************************)
(* Properties of GET /api/traces on a store at rest (SpecQuery).           *)
(***************************************************************************)
\* the spans of the store that satisfy the predicates of query q
Survivors(q) ==
    SelectSeq(spans, LAMBDA x : matchesSpanFilters(x, ParseTraceFilterParams(q)))

\* C7: X-Total-Count is the length of the unfiltered span array and
\* X-Filtered-Count is the number of spans that satisfy the predicates,
\* counted before pagination, whatever offset and limit are.
FilteredCountBeforePagination ==
    \A r \in Readers :
        (rd[r].pc = "done" /\ rd[r].op = "traces")
            => /\ rd[r].resp.total = Len(spans)
               /\ rd[r].resp.filtered = Len(Survivors(rd[r].q))

\* C10: in a response sorted by duration or by name, of two neighbours that
\* are equal on the sort key the one received later comes first, for
\* sort_order asc and desc alike.
TieBreakReceivedAtDescending ==
    \A r \in Readers :
        (/\ rd[r].pc = "done" /\ rd[r].op = "traces"
         /\ ParseTraceFilterParams(rd[r].q).SortBy \in {"duration", "name"})
            => \A i \in 1..(Len(rd[r].resp.body) - 1) :
                 LET a == rd[r].resp.body[i]
                     b == rd[r].resp.body[i + 1]
                     sameKey ==
                         IF ParseTraceFilterParams(rd[r].q).SortBy = "duration"
                         THEN a.durationNano = b.durationNano
                         ELSE a.name = b.name
                 IN  sameKey => a.receivedAt >= b.receivedAt

\* the spans query q keeps, in the order it asks for, before pagination
SortedSurvivors(q) ==
    sortSpans(Survivors(q), ParseTraceFilterParams(q).SortBy,
              ParseTraceFilterParams(q).SortOrder)

\* the body GET /api/traces gives for q with the given offset and limit
PageBody(q, offset, limit) ==
    ResponseOn("traces", [q EXCEPT !.offset = Num(offset), !.limit = Num(limit)],
               "", Snapshot).body

\* the bodies for offsets k * limit, (k + 1) * limit, ..., last * limit, joined
RECURSIVE ConcatPages(_, _, _, _)
ConcatPages(q, k, last, limit) ==
    IF k > last THEN <<>>
    ELSE PageBody(q, k * limit, limit) \o ConcatPages(q, k + 1, last, limit)

\* the page sizes a client pages with
MaxPageLimit == 3

\* C11: for the store as it stands and the filter and sort parameters of a
\* request, the pages at offsets 0, L, 2L, ... with limit L, joined, are the
\* whole filtered and sorted list, nothing missing and nothing repeated,
\* and every offset at or past its end gives an empty page.
PaginationTotality ==
    \A r \in Readers :
        (rd[r].pc = "done" /\ rd[r].op = "traces") =>
            LET q == rd[r].q
                full == SeqMap(SortedSurvivors(q), SpanDataToJSON)
            IN  \A limit \in 1..MaxPageLimit :
                    /\ ConcatPages(q, 0, Len(full) \div limit, limit) = full
                    /\ \A offset \in Len(full)..(Len(full) + limit) :
                         PageBody(q, offset, limit) = <<>>

\* the second page of one span each has been served from a store whose two
\* spans both survive the filter
PaginationWitness ==
    /\ rd[QueryReader].pc = "done" /\ rd[QueryReader].op = "traces"
    /\ rd[QueryReader].q.offset = Num(1) /\ rd[QueryReader].q.limit = Num(1)
    /\ Len(Survivors(rd[QueryReader].q)) = 2
    /\ Len(rd[QueryReader].resp.body) = 1

Determinism ==
    \A r1, r2 \in Readers :
        (/\ rd[r1].pc = "done" /\ rd[r2].pc = "done"
         /\ rd[r1].op = rd[r2].op /\ rd[r1].svc = rd[r2].svc)
        => rd[r1].resp = rd[r2].resp

\* the live spans witnessing the pair: a parent id that is set and resolves in
\* the span-id index to a span of service p, on a span of service c
EdgeWitnesses(p, c) ==
    {i \in 1..Len(spans) :
        /\ spans[i].serviceName = c
        /\ spans[i].parentSpanID # ""
        /\ spans[i].parentSpanID \in DOMAIN spanByID
        /\ spanByID[spans[i].parentSpanID].serviceName = p}

ExpectedEdges ==
    LET names == handleGetServices \cup {sp.serviceName : sp \in MapValues(spanByID)}
    IN  {[source |-> pair[1], target |-> pair[2],
          count |-> Cardinality(EdgeWitnesses(pair[1], pair[2]))] :
            pair \in {pc \in names \X names :
                         pc[1] # pc[2] /\ EdgeWitnesses(pc[1], pc[2]) # {}}}

\* C14: the topology has exactly one edge per ordered pair of distinct services
\* (parent, child) that some live span witnesses, and the edge's count is the
\* number of those spans
TopologyEdgesExact ==
    \A r \in Readers :
        (rd[r].pc = "done" /\ rd[r].op = "topology") =>
            /\ Range(rd[r].resp.body.edges) = ExpectedEdges
            /\ Len(rd[r].resp.body.edges) = Cardinality(ExpectedEdges)

\* C15: the topology's nodes are exactly the services of the live spans, each
\* once and with depth 0, whatever the spans' parents are
TopologyNodesExact ==
    \A r \in Readers :
        (rd[r].pc = "done" /\ rd[r].op = "topology") =>
            /\ Range(rd[r].resp.body.nodes) =
                   {[service |-> sp.serviceName, depth |-> 0] : sp \in Range(spans)}
            /\ Len(rd[r].resp.body.nodes) =
                   Cardinality({sp.serviceName : sp \in Range(spans)})

\* a topology built of two services where one span has no parent and another
\* names a parent that was evicted
TopologyNodesWitness ==
    /\ rd[QueryReader].pc = "done" /\ rd[QueryReader].op = "topology"
    /\ Len(rd[QueryReader].resp.body.nodes) = 2
    /\ \E i \in 1..Len(spans) : spans[i].parentSpanID = ""
    /\ \E i \in 1..Len(spans), j \in 1..Len(evictedSpans) :
         /\ spans[i].parentSpanID = evictedSpans[j].spanID
         /\ spans[i].serviceName # evictedSpans[j].serviceName

(***************************************************************************)
(* Properties of the keyed detail endpoints under ingestion (Spec).        *)
(***************************************************************************)
\* C16: a keyed detail endpoint answers 404 with an error message exactly when
\* no live record has the key, and otherwise 200 with exactly the live records
\* of that key in insertion order; the endpoints that are not keyed details
\* never answer 404
DetailEndpointsExact ==
    /\ \A traceID \in TraceIDs :
         LET live == SelectSeq(spans, LAMBDA sp : sp.traceID = traceID)
         IN  \A answer \in handleGetTraceByID(traceID) :
                 IF live = <<>>
                 THEN answer.status = StatusNotFound /\ answer.error # ""
                 ELSE /\ answer.status = StatusOK
                      /\ answer.result.spans = SeqMap(live, SpanDataToJSON)
    /\ \A traceID \in TraceIDs, service \in Services :
         LET live == SelectSeq(spans, LAMBDA sp :
                         sp.traceID = traceID /\ sp.serviceName = service)
             answer == handleGetTraceByIDAndService(traceID, service)
         IN  IF live = <<>>
             THEN answer.status = StatusNotFound /\ answer.error # ""
             ELSE /\ answer.status = StatusOK
                  /\ answer.result = SeqMap(live, SpanDataToJSON)
    /\ \A spanID \in SpanIDs :
         LET live == SelectSeq(spans, LAMBDA sp : sp.spanID = spanID)
             answer == handleGetSpanByID(spanID)
         IN  IF live = <<>>
             THEN answer.status = StatusNotFound /\ answer.error # ""
             ELSE /\ answer.status = StatusOK
                  /\ <<SpanDataToJSON(answer.span)>> = SeqMap(live, SpanDataToJSON)
    /\ \A service \in Services, metricName \in MetricNames :
         LET live == SelectSeq(metrics, LAMBDA m :
                         m.serviceName = service /\ m.name = metricName)
             answer == handleGetMetricsByServiceAndName(service, metricName)
         IN  IF live = <<>>
             THEN answer.status = StatusNotFound /\ answer.error # ""
             ELSE /\ answer.status = StatusOK
                  /\ answer.result = SeqMap(live, MetricDataToJSON)
    /\ \A traceID \in LogTraceIDs \ {""} :
         LET live == SelectSeq(logs, LAMBDA l : l.traceID = traceID)
             answer == handleGetLogsByTraceID(traceID)
         IN  IF live = <<>>
             THEN answer.status = StatusNotFound /\ answer.error # ""
             ELSE /\ answer.status = StatusOK
                  /\ answer.result = SeqMap(live, LogDataToJSON)
    /\ \A op \in {"traces", "metrics", "stats"} :
         ResponseOn(op, DefaultQuery, "", Snapshot).status # StatusNotFound
    /\ \A service \in Services :
         ResponseOn("metricsByService", DefaultQuery, service, Snapshot).status
             # StatusNotFound

NoEmptySlice(m) == \A k \in DOMAIN m : m[k] # <<>>

\* C18: no cache map holds a key with an empty slice, and a lookup by trace
\* id, (trace id, service), service, (service, metric name) or log trace id
\* reports presence exactly when a live record has the key; a trace whose
\* spans are all evicted answers 404
NoEmptySlices ==
    /\ NoEmptySlice(spansByTraceID) /\ NoEmptySlice(spansByTraceAndService)
    /\ NoEmptySlice(spansByService) /\ NoEmptySlice(metricsByServiceAndName)
    /\ NoEmptySlice(metricsByService) /\ NoEmptySlice(logsByTraceID)
    /\ NoEmptySlice(logsByService)
    /\ \A traceID \in TraceIDs :
         /\ GetSpansByTraceID(TraceCache, traceID).ok
                <=> \E sp \in Range(spans) : sp.traceID = traceID
         /\ \A service \in Services :
                GetSpansByTraceIDAndSvc(TraceCache, traceID, service).ok
                    <=> \E sp \in Range(spans) :
                            sp.traceID = traceID /\ sp.serviceName = service
         /\ (\A sp \in Range(spans) : sp.traceID # traceID)
                => \A answer \in handleGetTraceByID(traceID) :
                       answer.status = StatusNotFound
    /\ \A service \in Services :
         /\ service \in DOMAIN spansByService
                <=> \E sp \in Range(spans) : sp.serviceName = service
         /\ \A metricName \in MetricNames :
                GetMetricsBySvcAndMetricName(MetricCache, service, metricName).ok
                    <=> \E m \in Range(metrics) :
                            m.serviceName = service /\ m.name = metricName
    /\ \A traceID \in LogTraceIDs \ {""} :
         GetLogsByTraceID(LogCache, traceID).ok
             <=> \E l \in Range(logs) : l.traceID = traceID

\* every span of a trace has been evicted, spans of another trace are live,
\* and GET /api/traces/{traceID} answers 404 for it
NoEmptySlicesWitness ==
    \E traceID \in TraceIDs :
        /\ \E i \in 1..Len(evictedSpans) : evictedSpans[i].traceID = traceID
        /\ spans # <<>>
        /\ \A sp \in Range(spans) : sp.traceID # traceID
        /\ \A answer \in handleGetTraceByID(traceID) : answer.status = StatusNotFound
        /\ traceID \notin DOMAIN spansByTraceID

(***************************************************************************)
(* Properties of the metric endpoints on a store at rest (SpecEncode).     *)
(***************************************************************************)
\* C17: a response whose body fails to serialize reaches the client with
\* status 500, never with 200
SerializationFailureIs500 ==
    \A r \in Readers :
        (/\ rd[r].pc = "done" /\ rd[r].op \in {"metrics", "metricsByService"}
         /\ ~MetricsEncode(rd[r].resp.body))
        => rd[r].resp.status = StatusInternalServerError

(***************************************************************************)
(* Properties of GET /api/logs on a store at rest (SpecLogs).              *)
(***************************************************************************)
\* the threshold the documentation gives for a min_severity value
DocumentedThreshold(name) ==
    CASE name \in {"trace"} -> 1
      [] name \in {"debug"} -> 5
      [] name \in {"info"} -> 9
      [] name \in {"warn", "WARN", "Warn"} -> 13
      [] name \in {"error"} -> 17
      [] name \in {"fatal", "Fatal"} -> 21
      [] OTHER -> 0

MinSeverityQuery(name) == ParseLogFilterParams([DefaultQuery EXCEPT !.min_severity = name])

\* C19: min_severity keeps exactly the logs whose severity number is at least
\* the threshold of the name (trace 1, debug 5, info 9, warn 13, error 17,
\* fatal 21, in any case), an unknown name keeps every log; of the severities
\* 1, 9, 13, 17, 21 warn keeps 3 and bogus keeps 5
MinSeverityThreshold ==
    /\ \A r \in Readers :
         (rd[r].pc = "done" /\ rd[r].op = "logs") =>
             rd[r].resp.body =
                 SeqMap(SelectSeq(logs, LAMBDA l :
                            l.severityNumber >= DocumentedThreshold(rd[r].q.min_severity)),
                        LogDataToJSON)
    /\ Len(FilterLogs(LogBatch(<<1, 9, 13, 17, 21>>), MinSeverityQuery("warn"))) = 3
    /\ Len(FilterLogs(LogBatch(<<1, 9, 13, 17, 21>>), MinSeverityQuery("bogus"))) = 5

\* min_severity=WARN answered on a log just below the threshold and one at it
MinSeverityWitness ==
    /\ rd[QueryReader].pc = "done" /\ rd[QueryReader].op = "logs"
    /\ rd[QueryReader].q.min_severity = "WARN"
    /\ \E i, j \in 1..Len(logs) : logs[i].severityNumber = 12 /\ logs[j].severityNumber = 13
    /\ Len(rd[QueryReader].resp.body) = 1

(***************************************************************************)
(* Properties of the offset and limit parameters (SpecPagination).         *)
(***************************************************************************)
\* a raw parameter that is a decimal numeral, of whatever size
Numeral(p) == p.set /\ p.int

\* a numeral that fits Go's int
IntNumeral(p) == Numeral(p) /\ p.val >= MinInt /\ p.val <= MaxInt

\* a page of a list longer than the cap of the limit holds MaxLimit items
LongListCapped ==
    Len(paginateSpans([i \in 1..(MaxLimit + 1) |-> i],
                      ParsePaginationParams([DefaultQuery EXCEPT
                                                !.limit = Num(MaxLimit + 1)])))
        = MaxLimit

\* C20 as stated: for every offset and limit parameter the parsed offset is
\* at least 0 and the parsed limit between 1 and 1000; the offset is 0 when
\* absent, not a number or negative; the limit is 100 when absent, not a
\* number or at most 0, and 1000 for every numeral above 1000, however large;
\* no response holds more items than the limit
PaginationParsed ==
    /\ \A r \in Readers :
         (rd[r].pc = "done" /\ rd[r].op = "traces") =>
             LET q == rd[r].q
                 parsed == ParsePaginationParams(q)
             IN  /\ parsed.Offset >= 0
                 /\ parsed.Limit >= 1 /\ parsed.Limit <= 1000
                 /\ (~Numeral(q.offset) \/ q.offset.val < 0) => parsed.Offset = 0
                 /\ (~Numeral(q.limit) \/ q.limit.val <= 0) => parsed.Limit = 100
                 /\ (Numeral(q.limit) /\ q.limit.val > 1000) => parsed.Limit = 1000
                 /\ Len(rd[r].resp.body) <= parsed.Limit
    /\ LongListCapped

\* C20 as amended: a numeral outside the range of int counts as invalid, so
\* the limit is 1000 for the numerals above 1000 that fit int and 100 for
\* those that do not; between 1 and 1000 it is the numeral itself
PaginationParsedWithinInt ==
    /\ \A r \in Readers :
         (rd[r].pc = "done" /\ rd[r].op = "traces") =>
             LET q == rd[r].q
                 parsed == ParsePaginationParams(q)
             IN  /\ parsed.Offset >= 0
                 /\ parsed.Limit >= 1 /\ parsed.Limit <= 1000
                 /\ parsed.Offset =
                        IF ~IntNumeral(q.offset) \/ q.offset.val < 0 THEN 0
                        ELSE q.offset.val
                 /\ parsed.Limit =
                        IF ~IntNumeral(q.limit) \/ q.limit.val <= 0 THEN 100
                        ELSE IF q.limit.val > 1000 THEN 1000
                        ELSE q.limit.val
                 /\ Len(rd[r].resp.body) <= parsed.Limit
    /\ LongListCapped

\* a request whose limit is a numeral beyond the range of int, answered with
\* the two spans of the store
PaginationParsedWitness ==
    /\ rd[QueryReader].pc = "done" /\ rd[QueryReader].op = "traces"
    /\ rd[QueryReader].q.limit = Num(MaxInt + 1)
    /\ rd[QueryReader].q.offset = Num(-1)
    /\ Len(rd[QueryReader].resp.body) = 2

(***************************************************************************)
(* Properties of the filters of the list endpoints (SpecFilters).          *)
(***************************************************************************)
\* the records of the endpoint's array that the descriptor of query q keeps
Kept(op, q) ==
    CASE op = "traces" ->
           {x \in Range(spans) : matchesSpanFilters(x, ParseTraceFilterParams(q))}
      [] op = "metrics" ->
           {x \in Range(metrics) : matchesMetricFilters(x, ParseMetricFilterParams(q))}
      [] op = "logs" ->
           {x \in Range(logs) : matchesLogFilters(x, ParseLogFilterParams(q))}

Stored(op) ==
    CASE op = "traces" -> Range(spans)
      [] op = "metrics" -> Range(metrics)
      [] op = "logs" -> Range(logs)

WireOf(op, kept) ==
    CASE op = "traces" -> {SpanDataToJSON(x) : x \in kept}
      [] op = "metrics" -> {MetricDataToJSON(x) : x \in kept}
      [] op = "logs" -> {LogDataToJSON(x) : x \in kept}

FilterFields ==
    {"service", "status", "min_duration_ms", "max_duration_ms", "start_time",
     "end_time", "metric", "type", "severity", "min_severity", "body", "trace_id"}

\* the descriptors that configure some of the predicates of q and no other
Weaker(q) ==
    {[f \in DOMAIN q |-> IF f \in keep THEN q[f] ELSE DefaultQuery[f]] :
        keep \in SUBSET {f \in FilterFields : q[f] # DefaultQuery[f]}}

\* C21: filters combine with AND: a record survives a descriptor exactly when
\* it survives each of the descriptor's predicates alone; the descriptor
\* without predicates keeps every record; a descriptor with more predicates
\* keeps no record that one with fewer drops
FiltersConjunctive ==
    \A r \in Readers :
        (rd[r].pc = "done" /\ rd[r].op \in {"traces", "metrics", "logs"}) =>
            LET op == rd[r].op
                q == rd[r].q
            IN  /\ Range(rd[r].resp.body) = WireOf(op, Kept(op, q))
                /\ \A x \in Stored(op) :
                       x \in Kept(op, q) <=>
                           \A f \in FilterFields :
                               x \in Kept(op, [DefaultQuery EXCEPT ![f] = q[f]])
                /\ Kept(op, DefaultQuery) = Stored(op)
                /\ \A weak \in Weaker(q) : Kept(op, q) \subseteq Kept(op, weak)

\* a descriptor of two predicates, each of which alone keeps a record the
\* other drops, answered with neither
FiltersConjunctiveWitness ==
    /\ rd[QueryReader].pc = "done" /\ rd[QueryReader].op = "metrics"
    /\ rd[QueryReader].q.service = "nt c" /\ rd[QueryReader].q.type = "histogram"
    /\ Kept("metrics", [DefaultQuery EXCEPT !.service = "nt c"]) # {}
    /\ rd[QueryReader].resp.body = <<>>

(***************************************************************************)
(* Properties of the update timestamp under ingestion (Spec).              *)
(***************************************************************************)
\* the lock is released at the end of a batch in this step
BatchEnds == writer.kind # "idle" /\ writer'.kind = "idle"

\* C22: lastUpdated of /api/stats is the store's update timestamp; every
\* batch of spans, metrics or logs sets it to the clock's instant in the step
\* that ends the batch, after the batch's last record, no other step changes
\* it, and it never decreases
LastUpdatedPerBatch ==
    /\ [](ResponseOn("stats", DefaultQuery, "", Snapshot).stats.lastUpdated = updatedAt)
    /\ [][/\ BatchEnds => (writer.left = 0 /\ updatedAt' = now)
          /\ ~BatchEnds => updatedAt' = updatedAt
          /\ updatedAt' >= updatedAt]_vars

\* the timestamp has been advanced to the second instant by a later batch,
\* after batches of two signals
LastUpdatedWitness ==
    /\ updatedAt = 2 /\ writer.kind = "idle"
    /\ insertedSpans # <<>> /\ insertedLogs # <<>>
    /\ \E i \in 1..Len(insertedSpans) : insertedSpans[i].receivedAt = 1

(***************************************************************************)
(* Properties of GET /api/metrics/{service} under ingestion (Spec).        *)
(***************************************************************************)
\* what a client can put in the path: a service, a service in other case, a
\* metric's name
ServicePaths == Services \cup {"FRONT", "cpu"}

\* C23: GET /api/metrics/{service} answers 200 with exactly the live metrics
\* whose service name is {service}, in insertion order, an empty array when
\* there are none
MetricsOfServiceExact ==
    \A service \in ServicePaths :
        LET answer == ResponseOn("metricsByService", DefaultQuery, service, Snapshot)
        IN  /\ answer.status = StatusOK
            /\ answer.body =
                   SeqMap(SelectSeq(metrics, LAMBDA m : m.serviceName = service),
                          MetricDataToJSON)

(***************************************************************************)
(* Properties of GET /api/stats on a store at rest (SpecStats).            *)
(***************************************************************************)
\* one span more than the cap has come in, each with a trace and a service of
\* its own
DistinctOverflow ==
    /\ Len(insertedSpans) = MAX_SERVICE_SPAN_COUNT + 1
    /\ \A i, j \in 1..Len(insertedSpans) :
         i # j => /\ insertedSpans[i].traceID # insertedSpans[j].traceID
                  /\ insertedSpans[i].serviceName # insertedSpans[j].serviceName

\* C24: the counts of /api/stats, found by scanning the span array, agree with
\* the indexes: spanCount is the length of the array, traceCount the number of
\* keys of spansByTraceID, serviceCount the number of distinct services of the
\* live spans; after one span more than the cap, all of distinct traces and
\* services, the three counts are the cap
StatsAgreeWithIndexes ==
    \A r \in Readers :
        (rd[r].pc = "done" /\ rd[r].op = "stats") =>
            LET stats == rd[r].resp.stats
            IN  /\ stats.spanCount = Len(spans)
                /\ stats.traceCount = Cardinality(DOMAIN spansByTraceID)
                /\ stats.serviceCount = Cardinality(DOMAIN spansByService)
                /\ stats.serviceCount = Cardinality({sp.serviceName : sp \in Range(spans)})
                /\ DistinctOverflow =>
                       /\ stats.spanCount = MAX_SERVICE_SPAN_COUNT
                       /\ stats.traceCount = MAX_SERVICE_SPAN_COUNT
                       /\ stats.serviceCount = MAX_SERVICE_SPAN_COUNT

\* the stats of a store that evicted the first of its spans, all of distinct
\* traces and services
StatsWitness ==
    /\ rd[QueryReader].pc = "done" /\ rd[QueryReader].op = "stats"
    /\ DistinctOverflow
    /\ evictedSpans # <<>>
    /\ rd[QueryReader].resp.stats.traceCount = MAX_SERVICE_SPAN_COUNT

MaxSortLen == 3

\* slices of distinct spans with few values of each sort key
SortSlices ==
    UNION {
        {[i \in 1..n |->
             NewSpanData([traceID |-> "t1", spanID |-> "", parentSpanID |-> "",
                          serviceName |-> "front", name |-> b[i][1],
                          duration |-> b[i][2], status |-> "Unset"], i, b[i][3])] :
            b \in [1..n -> {"a", "b"} \X (1..2) \X (1..2)]} :
        n \in 0..MaxSortLen}

SortQueries ==
    {[DefaultQuery EXCEPT !.sort_by = by, !.sort_order = ord] :
        by \in {"", "time", "duration", "name", "bogus"},
        ord \in {"", "asc", "desc", "bogus"}}

\* a comes strictly before b in the order query q asks for, read off the raw
\* parameters
KeyBefore(a, b, q) ==
    LET less == CASE q.sort_by = "duration" -> a.duration < b.duration
                  [] q.sort_by = "name" -> StrLess(a.name, b.name)
                  [] OTHER -> a.receivedAt < b.receivedAt
        more == CASE q.sort_by = "duration" -> a.duration > b.duration
                  [] q.sort_by = "name" -> StrLess(b.name, a.name)
                  [] OTHER -> a.receivedAt > b.receivedAt
    IN  IF q.sort_order = "asc" THEN less ELSE more

\* out holds the spans of in, each once, in the order q asks for
SortedPermutation(in, out, q) ==
    /\ Len(out) = Len(in)
    /\ \A x \in Range(in) :
         Cardinality({i \in 1..Len(out) : out[i] = x})
             = Cardinality({i \in 1..Len(in) : in[i] = x})
    /\ \A i \in 1..(Len(out) - 1) : ~KeyBefore(out[i + 1], out[i], q)

SortSound ==
    \A slice \in SortSlices, q \in SortQueries :
        SortedPermutation(slice,
                          sortSpans(slice, ParseTraceFilterParams(q).SortBy,
                                    ParseTraceFilterParams(q).SortOrder),
                          q)

\* C26: what FilterSpans paginates is a permutation of the surviving spans,
\* non-decreasing in the key for sort_order asc and non-increasing for any
\* other sort_order; the key is the duration for sort_by duration, the name
\* for name and received-at for time, for no sort_by and for any other
SortedByRequestedKey ==
    /\ \A r \in Readers :
         (/\ rd[r].pc = "done" /\ rd[r].op = "traces"
          /\ rd[r].q.offset = Absent /\ rd[r].q.limit = Absent)
         => /\ SortedPermutation(Survivors(rd[r].q), SortedSurvivors(rd[r].q), rd[r].q)
            /\ rd[r].resp.body = SeqMap(SortedSurvivors(rd[r].q), SpanDataToJSON)
    /\ SortSound

\* two spans stored with the shorter one first, answered longest last
SortedWitness ==
    /\ rd[QueryReader].pc = "done" /\ rd[QueryReader].op = "traces"
    /\ rd[QueryReader].q.sort_by = "duration" /\ rd[QueryReader].q.sort_order = "asc"
    /\ rd[QueryReader].q.offset = Absent /\ rd[QueryReader].q.limit = Absent
    /\ Len(spans) = 2 /\ spans[1].duration > spans[2].duration
    /\ Len(rd[QueryReader].resp.body) = 2
    /\ rd[QueryReader].resp.body[1].durationNano < rd[QueryReader].resp.body[2].durationNano

(***************************************************************************)
(* SpecReadOnly: every endpoint that filters, sorts or sets a view, asked  *)
(* of a store at rest.                                                     *)
(***************************************************************************)
NextReadOnly ==
    \/ \E q \in SortQueries : handleGetTracesBegin(QueryReader, q)
    \/ handleGetTracesHeaders(QueryReader)
    \/ \E q \in MetricFilterQueries : handleGetMetricsBegin(QueryReader, q)
    \/ handleGetMetricsGet(QueryReader)
    \/ \E service \in Services : handleGetMetricsByServiceBegin(QueryReader, service)
    \/ handleGetMetricsByServiceGet(QueryReader)
    \/ \E q \in LogFilterQueries : handleGetLogsBegin(QueryReader, q)
    \/ handleGetLogsGet(QueryReader)
    \/ handleGetStatsBegin(QueryReader)
    \/ handleGetStatsGet(QueryReader)
    \/ handleGetStatsScan(QueryReader)
    \/ handleGetStatsBuild(QueryReader)
    \/ Respond(QueryReader)

SpecReadOnly == InitFilters /\ [][NextReadOnly]_vars

\* C27: no request changes the store: the three arrays keep their content and
\* order, the cache slices and the last-updated instant stay as they were;
\* only the view queries of ApplyFilterMetrics and ApplyFilterLogs move
RequestsLeaveStore ==
    [][/\ spans' = spans /\ metrics' = metrics /\ logs' = logs
       /\ <<spanByID, spansByTraceID, spansByTraceAndService, spansByService>>'
            = <<spanByID, spansByTraceID, spansByTraceAndService, spansByService>>
       /\ <<metricsByServiceAndName, metricsByService, logsByTraceID, logsByService>>'
            = <<metricsByServiceAndName, metricsByService, logsByTraceID, logsByService>>
       /\ updatedAt' = updatedAt]_vars

\* a request answered in another order than the store's, the store as it was
RequestsLeaveStoreWitness ==
    /\ rd[QueryReader].pc = "done" /\ rd[QueryReader].op = "traces"
    /\ Len(spans) = 2 /\ spans = insertedSpans
    /\ rd[QueryReader].resp.body
         = <<SpanDataToJSON(spans[2]), SpanDataToJSON(spans[1])>>
    /\ spans[1].duration # spans[2].duration

(***************************************************************************)
(* SpecTime: GET /api/traces with start_time and end_time on a store whose *)
(* spans were received one and two milliseconds after the epoch.           *)
(***************************************************************************)
TimeSpanInput ==
    [traceID |-> "t1", spanID |-> "", parentSpanID |-> "", serviceName |-> "front",
     name |-> "GET", duration |-> 1, status |-> "Unset"]

TimeBatches ==
    UNION {
        {[i \in 1..n |->
             NewSpanData([TimeSpanInput EXCEPT !.spanID = SpanIDSeq[i]], i, at[i])] :
            at \in {c \in [1..n -> {Millisecond, 2 * Millisecond}] :
                       \A i \in 1..(n - 1) : c[i] <= c[i + 1]}} :
        n \in 0..Min(MAX_SERVICE_SPAN_COUNT, Len(SpanIDSeq))}

\* the least count of milliseconds whose nanoseconds pass the range of int64
WrapMillis == (MaxInt64 \div Millisecond) + 1

\* absent, text, instants at and around those of the spans, far instants on
\* both sides and a numeral beyond int64
TimeValues ==
    {Absent, NotANumber, Num(0), Num(1), Num(2), Num(3), Num(WrapMillis),
     Num(-WrapMillis), Num(MaxInt64 + 1)}

TimeQueries ==
    {[DefaultQuery EXCEPT !.start_time = from, !.end_time = to] :
        from \in TimeValues, to \in TimeValues}

InitTime ==
    /\ \E batch \in TimeBatches :
         LET st == LoadSpans([arr |-> <<>>, cache |-> EmptyTraceCache, out |-> <<>>], batch)
         IN  /\ spans = st.arr
             /\ spanByID = st.cache.spanByID
             /\ spansByTraceID = st.cache.spansByTraceID
             /\ spansByTraceAndService = st.cache.spansByTraceAndService
             /\ spansByService = st.cache.spansByService
             /\ insertedSpans = batch
             /\ nextUid = Len(batch) + 1
    /\ now = 1 /\ updatedAt = 1
    /\ metrics = <<>> /\ logs = <<>>
    /\ metricsByServiceAndName = EmptyMap /\ metricsByService = EmptyMap
    /\ logsByTraceID = EmptyMap /\ logsByService = EmptyMap
    /\ filterMetric = "" /\ filterLog = ""
    /\ ingestLimit = 0
    /\ exporter = ServingExporter
    /\ writer = Idle
    /\ pushErr = "nil"
    /\ insertedMetrics = <<>> /\ insertedLogs = <<>>
    /\ evictedSpans = <<>> /\ evictedMetrics = <<>> /\ evictedLogs = <<>>
    /\ rd = [r \in Readers |-> IdleReader]

NextTime ==
    \/ \E q \in TimeQueries : handleGetTracesBegin(QueryReader, q)
    \/ handleGetTracesHeaders(QueryReader)
    \/ Respond(QueryReader)

SpecTime == InitTime /\ [][NextTime]_vars

\* a raw value that strconv.ParseInt accepts
Int64Numeral(p) == p.set /\ p.int /\ p.val >= MinInt64 /\ p.val <= MaxInt64

\* instant t lies in the range query q asks for, m read as m milliseconds
\* after the epoch and both ends included
InTimeRange(t, q) ==
    /\ Int64Numeral(q.start_time) => t >= q.start_time.val * Millisecond
    /\ Int64Numeral(q.end_time) => t <= q.end_time.val * Millisecond

\* C28: a start_time or end_time that is a decimal 64-bit integer m stands
\* for the instant m milliseconds after the epoch, for every such m; a value
\* that is no number is absent; a record at start_time or at end_time is kept
TimeRangeInMillis ==
    \A r \in Readers :
        (rd[r].pc = "done" /\ rd[r].op = "traces")
        => Range(rd[r].resp.body)
               = {SpanDataToJSON(sp) :
                     sp \in {x \in Range(spans) : InTimeRange(x.receivedAt, rd[r].q)}}

(***************************************************************************)
(* Shape of the service graph (SpecTopology).                              *)
(***************************************************************************)
RECURSIVE SumCounts(_)
SumCounts(edges) ==
    IF edges = <<>> THEN 0 ELSE Head(edges).count + SumCounts(Tail(edges))

\* C29: whatever the parents are, a span that is its own parent and parents
\* in a cycle included, the graph of /api/topology has no edge from a service
\* to itself, every edge counts one span at least, both ends of every edge
\* are nodes, and the counts add up to no more than the number of spans
TopologyWellFormed ==
    \A r \in Readers :
        (rd[r].pc = "done" /\ rd[r].op = "topology") =>
            LET nodes == rd[r].resp.body.nodes
                edges == rd[r].resp.body.edges
                services == {nodes[i].service : i \in 1..Len(nodes)}
            IN  /\ \A i \in 1..Len(edges) :
                     /\ edges[i].source # edges[i].target
                     /\ edges[i].count >= 1
                     /\ edges[i].source \in services
                     /\ edges[i].target \in services
                /\ SumCounts(edges) <= Len(spans)

\* two spans of two services that are each other's parent, with the graph
\* built: every span is counted on an edge
ParentCycleWitness ==
    /\ rd[QueryReader].pc = "done" /\ rd[QueryReader].op = "topology"
    /\ Len(spans) = 2
    /\ spans[1].parentSpanID = spans[2].spanID
    /\ spans[2].parentSpanID = spans[1].spanID
    /\ spans[1].serviceName # spans[2].serviceName
    /\ SumCounts(rd[QueryReader].resp.body.edges) = 2

(***************************************************************************)
(* SpecLifecycle: Start, the goroutines it spawns, the cancellation of its *)
(* context and Shutdown, for every configuration.  The collector may call  *)
(* Shutdown at any time.                                                   *)
(***************************************************************************)
Configs == [ServerOnly : BOOLEAN, HTTPPort : {-1, 0, 1}]

InitLifecycle ==
    /\ InitStore /\ ingestLimit = 0
    /\ \E config \in Configs : exporter = newTuiExporter(config)

NextLifecycle ==
    \/ StartApp \/ appRun \/ StartHTTPServer \/ ListenAndServe \/ StartWait
    \/ ctxCancel
    \/ ShutdownHTTPServer \/ ShutdownApp

SpecLifecycle == InitLifecycle /\ [][NextLifecycle]_vars

Called(call) == \E i \in 1..Len(exporter.calls) : exporter.calls[i] = call

\* C30: in server-only mode Start never runs the TUI app, starts the HTTP
\* server exactly for a port above zero and returns only when its context is
\* done, and Shutdown shuts the HTTP server down if there is one and never
\* stops the TUI app; otherwise Start does not wait and Shutdown shuts the
\* HTTP server down before it stops the TUI app
ExporterLifecycle ==
    /\ exporter.serverOnly =>
         /\ exporter.appGo = "none" /\ ~Called("app.Run")
         /\ exporter.start \in {"wait", "returned"}
                => (exporter.serveGo # "none" <=> exporter.httpPort > 0)
         /\ exporter.start = "returned" => exporter.ctxDone
         /\ exporter.shutdown \in {"app", "returned"}
                => (Called("httpServer.Shutdown") <=> exporter.httpPort > 0)
         /\ ~Called("app.Stop") /\ exporter.app = "created"
    /\ ~exporter.serverOnly =>
         /\ exporter.start \in {"http", "wait", "returned"} => exporter.appGo # "none"
         /\ exporter.start = "wait" => ENABLED StartWait
         /\ exporter.shutdown = "returned" => Called("app.Stop")
         /\ \A i \in 1..Len(exporter.calls) :
                (exporter.calls[i] = "app.Stop" /\ exporter.httpPort > 0)
                => \E j \in 1..(i - 1) : exporter.calls[j] = "httpServer.Shutdown"

\* server-only with a port: Start has returned after the cancellation, the
\* server listened and Shutdown has shut it down
ExporterLifecycleWitness ==
    /\ exporter.serverOnly /\ exporter.httpPort > 0
    /\ exporter.start = "returned" /\ exporter.shutdown = "returned"
    /\ exporter.calls = <<"httpServer.ListenAndServe", "httpServer.Shutdown">>
====
